---- MODULE Spec2Model ----
(***************************************************************************)
(* Verification model of the DiscordBot backend (FastAPI) and bot.        *)
(*                                                                         *)
(* The backend is a single asyncio process: every request handler runs    *)
(* as a task and is suspended only at awaits that really yield (database, *)
(* outbound HTTP, WebSocket send/receive, contended locks).  Handlers     *)
(* that hold no shared in-memory state across an await are one action;    *)
(* handlers that do (the WebSocket endpoints, the guild-access cache) are *)
(* split at their suspension points.                                      *)
(*                                                                         *)
(* The module holds one state machine per subsystem; each has its own     *)
(* specification (SpecJwt, SpecAuth, ...)    which leaves the variables of  *)
(* the other subsystems unchanged.                                        *)
(***************************************************************************)
EXTENDS Integers, Sequences, FiniteSets, TLC

VARIABLES
    jwtNow,     \* jwt_handler: datetime.utcnow(), in minutes
    jwtTicks,   \* how often the clock has advanced
    jwtTok,     \* jwt_handler: the token minted last, with how it was minted
    jwtRes,     \* jwt_handler: the last verify_token call and its result
    userTable,  \* the users table (with each user's role ids), by user id
    utcnow,     \* the API's datetime.utcnow(), in minutes
    ticks,      \* how often that clock has advanced
    last,       \* the last HTTP request and its response
    audit_log_enabled,  \* settings.audit_log_enabled, if the settings have it
    wsSock,         \* websocket: each connection attempt and its handler
    wsConnections,  \* websocket: ConnectionManager._connections
    wsCast,         \* websocket: the broadcast in progress
    wsEvents,       \* websocket: client messages and broadcasts so far
    modules,        \* the modules table, by module name
    apiKeys,        \* the api_keys table, by key id
    resolution,     \* the last get_api_key_or_user call and its result
    time_time,              \* commands.py: time.time(), in seconds
    discord,                \* each user's is_superuser and discord_access_token
    _user_guilds_cache,     \* commands.py: user id -> (timestamp, guilds)
    _user_guilds_locks,     \* commands.py: user id -> asyncio.Lock
    checks,                 \* the guild-access checks, one task each
    rcon_enabled,           \* settings.rcon_enabled
    audit_logs,             \* the audit_logs table, by id
    audit_today,            \* datetime.utcnow() of the retention code, in days
    retention_settings,     \* the retention fields the settings object carries
    cleanup_task,           \* the run_cleanup_scheduler() task
    bot_settings,           \* the bot_settings table, in insertion order
    settings_calls,         \* the POST /settings requests, one task each
    settings_started,       \* how many of them have been made
    custom_commands,        \* the custom_commands table, by id
    command_last,           \* the last custom-command request and its answer
    command_configs,        \* the command_configs table, in insertion order
    toggle_calls,           \* the PUT .../builtin/... requests, one task each
    toggle_started,         \* how many of them have been made
    latest_put,             \* per pair, what the latest successful PUT set
    lifespan,               \* Application.lifespan: where it stands, the pool
    casts,                  \* websocket: the manager.broadcast() calls
    mfa_calls,              \* auth: the MFA requests of user 1 in flight
    mfa_started,            \* auth: how many of them have been made
    mfa_confirmed,          \* auth: the secret user 1's last verify checked
    update_calls,           \* settings: the PUT /settings/{guild_id} requests
    update_started,         \* settings: how many of them have been made
    settings_audit,         \* settings: the bot.settings_update audit entries
    _prefix_cache,          \* bot: DiscordBot._prefix_cache[guild], if any
    guild_prefix,           \* bot: the prefix the backend stores for the guild
    bot_settings_routed,    \* bot: the server at api_url serves /bot/settings/...
    prefix_tasks,           \* bot: the _get_prefix() calls, one per message
    setprefix_call,         \* bot: the setprefix command
    backend_commands,       \* bot: the guild's custom commands in the backend
    _commands_cache,        \* bot: CustomCommands._commands_cache[guild], if any
    _registered_commands,   \* bot: CustomCommands._registered_commands, the guild's
    last_refresh,           \* bot: the latest _load_guild_commands() of the guild
    guild_owner,            \* moderation: guild.owner
    top_role,               \* moderation: the position of each member's top role
    guild_members,          \* moderation: per member, present, timed out, warned
    mod_last                \* moderation: the latest /mod command and its outcome

jwtVars == <<jwtNow, jwtTicks, jwtTok, jwtRes>>
authVars == <<userTable, utcnow, ticks, last, audit_log_enabled>>

\* What an action of one subsystem leaves alone: the other subsystems.
wsVars == <<wsSock, wsConnections, wsCast, wsEvents>>
modVars == <<modules>>
keyVars == <<apiKeys, resolution>>
guildVars == <<time_time, discord, _user_guilds_cache, _user_guilds_locks, checks>>
mcVars == <<rcon_enabled>>
retVars == <<audit_logs, audit_today, retention_settings, cleanup_task>>
setVars == <<bot_settings, settings_calls, settings_started>>
cmdVars == <<custom_commands, command_last>>
bltVars == <<command_configs, toggle_calls, toggle_started, latest_put>>
lifeVars == <<lifespan>>
mgrVars == <<casts>>
mfaVars == <<mfa_calls, mfa_started, mfa_confirmed>>
updVars == <<update_calls, update_started, settings_audit>>
pfxVars == <<_prefix_cache, guild_prefix, bot_settings_routed, prefix_tasks, setprefix_call>>
rfrVars == <<backend_commands, _commands_cache, _registered_commands, last_refresh>>
mdnVars == <<guild_owner, top_role, guild_members, mod_last>>
JwtFrame == UNCHANGED <<authVars, wsVars, modVars, keyVars, guildVars, mcVars, retVars, setVars, cmdVars, bltVars, lifeVars, mgrVars, mfaVars, updVars, pfxVars, rfrVars, mdnVars>>
AuthFrame == UNCHANGED <<jwtVars, wsVars, modVars, keyVars, guildVars, mcVars, retVars, setVars, cmdVars, bltVars, lifeVars, mgrVars, mfaVars, updVars, pfxVars, rfrVars, mdnVars>>
WsFrame == UNCHANGED <<jwtVars, authVars, modVars, keyVars, guildVars, mcVars, retVars, setVars, cmdVars, bltVars, lifeVars, mgrVars, mfaVars, updVars, pfxVars, rfrVars, mdnVars>>
ModFrame == UNCHANGED <<jwtVars, wsVars, keyVars, guildVars, mcVars, retVars, setVars, cmdVars, bltVars, lifeVars, mgrVars, mfaVars, updVars, pfxVars, rfrVars, mdnVars>>
KeyFrame == UNCHANGED <<jwtVars, authVars, wsVars, modVars, guildVars, mcVars, retVars, setVars, cmdVars, bltVars, lifeVars, mgrVars, mfaVars, updVars, pfxVars, rfrVars, mdnVars>>
GuildFrame == UNCHANGED <<jwtVars, authVars, wsVars, modVars, keyVars, mcVars, retVars, setVars, cmdVars, bltVars, lifeVars, mgrVars, mfaVars, updVars, pfxVars, rfrVars, mdnVars>>
McFrame == UNCHANGED <<jwtVars, wsVars, modVars, keyVars, guildVars, retVars, setVars, cmdVars, bltVars, lifeVars, mgrVars, mfaVars, updVars, pfxVars, rfrVars, mdnVars>>
RetFrame == UNCHANGED <<jwtVars, wsVars, modVars, keyVars, guildVars, mcVars, setVars, cmdVars, bltVars, lifeVars, mgrVars, mfaVars, updVars, pfxVars, rfrVars, mdnVars>>
SetFrame == UNCHANGED <<jwtVars, authVars, wsVars, modVars, keyVars, guildVars, mcVars, retVars, cmdVars, bltVars, lifeVars, mgrVars, mfaVars, updVars, pfxVars, rfrVars, mdnVars>>
CmdFrame == UNCHANGED <<jwtVars, wsVars, modVars, keyVars, guildVars, mcVars, retVars, setVars, bltVars, lifeVars, mgrVars, mfaVars, updVars, pfxVars, rfrVars, mdnVars>>
BltFrame == UNCHANGED <<jwtVars, authVars, wsVars, modVars, keyVars, guildVars, mcVars, retVars, setVars, cmdVars, lifeVars, mgrVars, mfaVars, updVars, pfxVars, rfrVars, mdnVars>>
LifeFrame == UNCHANGED <<jwtVars, wsVars, modVars, keyVars, guildVars, mcVars, setVars, cmdVars, bltVars, mgrVars, mfaVars, updVars, pfxVars, rfrVars, mdnVars>>
MgrFrame == UNCHANGED <<jwtVars, authVars, modVars, keyVars, guildVars, mcVars, retVars, setVars, cmdVars, bltVars, lifeVars, mfaVars, updVars, pfxVars, rfrVars, mdnVars>>
MfaFrame == UNCHANGED <<jwtVars, wsVars, modVars, keyVars, guildVars, mcVars, retVars, setVars, cmdVars, bltVars, lifeVars, mgrVars, updVars, pfxVars, rfrVars, mdnVars>>
UpdFrame == UNCHANGED <<jwtVars, authVars, wsVars, modVars, keyVars, guildVars, mcVars, retVars, cmdVars, bltVars, lifeVars, mgrVars, mfaVars, pfxVars, rfrVars, mdnVars>>
PfxFrame == UNCHANGED <<jwtVars, authVars, wsVars, modVars, keyVars, guildVars, mcVars, retVars, setVars, cmdVars, bltVars, lifeVars, mgrVars, mfaVars, updVars, rfrVars, mdnVars>>
RfrFrame == UNCHANGED <<jwtVars, authVars, wsVars, modVars, keyVars, guildVars, mcVars, retVars, setVars, cmdVars, bltVars, lifeVars, mgrVars, mfaVars, updVars, pfxVars, mdnVars>>
MdnFrame == UNCHANGED <<jwtVars, authVars, wsVars, modVars, keyVars, guildVars, mcVars, retVars, setVars, cmdVars, bltVars, lifeVars, mgrVars, mfaVars, updVars, pfxVars, rfrVars>>

----------------------------------------------------------------------------
(* Python values *)

\* Python's None, where the other values of the field are records.
None == [none |-> TRUE]

Digit == <<"0", "1", "2", "3", "4", "5", "6", "7", "8", "9">>

\* str(n) for n >= 0: the decimal digits, most significant first.
RECURSIVE PyStrInt(_)
PyStrInt(n) ==
    IF n < 10 THEN <<Digit[n + 1]>>
    ELSE Append(PyStrInt(n \div 10), Digit[(n % 10) + 1])

\* str(subject) in create_*_token: subject is str | int.
PyStr(subject) ==
    IF subject.kind = "int" THEN PyStrInt(subject.v) ELSE subject.v

DigitValue(c) == CHOOSE i \in 0..9 : Digit[i + 1] = c

IsDigits(s) == Len(s) > 0 /\ \A i \in 1..Len(s) : \E d \in 1..10 : Digit[d] = s[i]

\* int(s): the value of a string of decimal digits; ValueError (-1) otherwise.
RECURSIVE PyIntDigits(_)
PyIntDigits(s) ==
    IF Len(s) = 0 THEN 0
    ELSE 10 * PyIntDigits(SubSeq(s, 1, Len(s) - 1)) + DigitValue(s[Len(s)])

PyInt(s) == IF IsDigits(s) THEN PyIntDigits(s) ELSE -1

----------------------------------------------------------------------------
(* api/core/config.py and api/core/jwt_handler.py *)

access_token_expire_minutes == 15
refresh_token_expire_days == 7
MinutesPerDay == 1440

\* settings.jwt_secret_key, and a key the server does not hold.
jwt_secret_key == "server-secret"
ForeignKey == "other-secret"

\* jwt.encode: the claims, signed with the key.
JwtEncode(claims, key) == [wellformed |-> TRUE, claims |-> claims, sig |-> key]

\* A string that is no JWT ("invalid.token.here").
MalformedToken == [wellformed |-> FALSE, claims |-> None, sig |-> "none"]

\* jwt.decode with the server key: the claims, or None for every PyJWTError
\* (malformed token, bad signature, exp not in the future).
JwtDecode(token, key, now) ==
    IF ~token.wellformed THEN None
    ELSE IF token.sig # key THEN None
    ELSE IF token.claims.exp <= now THEN None
    ELSE token.claims

\* expires_delta: None (the default lifetime) or a timedelta in minutes.
NoDelta == [given |-> FALSE, v |-> 0]
Delta(m) == [given |-> TRUE, v |-> m]

create_access_token(subject, expires_delta, now) ==
    LET delta == IF expires_delta.given THEN expires_delta.v
                 ELSE access_token_expire_minutes
    IN JwtEncode([sub |-> PyStr(subject), exp |-> now + delta, iat |-> now,
                  type |-> "access"], jwt_secret_key)

create_refresh_token(subject, expires_delta, now) ==
    LET delta == IF expires_delta.given THEN expires_delta.v
                 ELSE refresh_token_expire_days * MinutesPerDay
    IN JwtEncode([sub |-> PyStr(subject), exp |-> now + delta, iat |-> now,
                  type |-> "refresh"], jwt_secret_key)

\* verify_token without the token-type comparison.
verify_token_untyped(token, token_type, now) ==
    JwtDecode(token, jwt_secret_key, now)

\* verify_token: the TokenPayload, or None.
verify_token(token, token_type, now) ==
    LET payload == JwtDecode(token, jwt_secret_key, now)
    IN IF payload = None THEN None
       ELSE IF payload.type # token_type THEN None
       ELSE [sub |-> payload.sub, exp |-> payload.exp, iat |-> payload.iat,
             type |-> payload.type]

----------------------------------------------------------------------------
(* The token functions as a state machine: mint, let time pass, verify. *)

\* Subjects handed to create_*_token: user ids and strings.
MaxSubject == 12
Subjects ==
    [kind : {"int"}, v : {0, 1, 9, 10, MaxSubject}]
        \cup [kind : {"str"}, v : {<<"1">>, <<"a", "b">>}]

\* The clock advances at most MaxJwtTicks times, by a minute or a token lifetime.
MaxJwtTicks == 2
JwtSteps == {1, access_token_expire_minutes, refresh_token_expire_days * MinutesPerDay}
JwtDeltas == {NoDelta, Delta(1), Delta(0)}

NoToken == [kind |-> "none", subject |-> [kind |-> "int", v |-> 0],
            token |-> MalformedToken]
NoResult == [done |-> FALSE, expected |-> "access", at |-> 0, payload |-> None]

JwtInit ==
    /\ jwtNow = 0
    /\ jwtTicks = 0
    /\ jwtTok = NoToken
    /\ jwtRes = NoResult

MintAccess ==
    \E s \in Subjects, d \in JwtDeltas :
        /\ jwtTok' = [kind |-> "access", subject |-> s,
                      token |-> create_access_token(s, d, jwtNow)]
        /\ jwtRes' = NoResult
        /\ UNCHANGED <<jwtNow, jwtTicks>>
        /\ JwtFrame

MintRefresh ==
    \E s \in Subjects, d \in JwtDeltas :
        /\ jwtTok' = [kind |-> "refresh", subject |-> s,
                      token |-> create_refresh_token(s, d, jwtNow)]
        /\ jwtRes' = NoResult
        /\ UNCHANGED <<jwtNow, jwtTicks>>
        /\ JwtFrame

\* A token the server did not mint: garbage, or claims signed with another key.
PresentForeign ==
    \E s \in Subjects, t \in {"access", "refresh"}, bad \in BOOLEAN :
        /\ jwtTok' = [kind |-> "foreign", subject |-> s,
                      token |-> IF bad THEN MalformedToken
                                ELSE JwtEncode([sub |-> PyStr(s), exp |-> jwtNow + 1,
                                                iat |-> jwtNow, type |-> t], ForeignKey)]
        /\ jwtRes' = NoResult
        /\ UNCHANGED <<jwtNow, jwtTicks>>
        /\ JwtFrame

VerifyToken ==
    \E t \in {"access", "refresh"} :
        /\ jwtTok.kind # "none"
        /\ jwtRes' = [done |-> TRUE, expected |-> t, at |-> jwtNow,
                      payload |-> verify_token(jwtTok.token, t, jwtNow)]
        /\ UNCHANGED <<jwtNow, jwtTicks, jwtTok>>
        /\ JwtFrame

JwtTick ==
    \E d \in JwtSteps :
        /\ jwtTicks < MaxJwtTicks
        /\ jwtTicks' = jwtTicks + 1
        /\ jwtNow' = jwtNow + d
        /\ UNCHANGED <<jwtTok, jwtRes>>
        /\ JwtFrame

JwtNext == MintAccess \/ MintRefresh \/ PresentForeign \/ VerifyToken \/ JwtTick

----------------------------------------------------------------------------
(* api/models/user.py, api/models/role.py: the users table *)

UserIds == {1, 2}


\* DEFAULT_ROLES, by role id (init_db seeds them in this order), restricted
\* to the permissions the modelled routes ask for.
RoleIds == {1, 2, 3}   \* admin, moderator, viewer
RolePermissions ==
    [r \in RoleIds |->
        CASE r = 1 -> {"user:read", "user:write", "user:delete",
                       "module:read", "module:enable", "module:disable",
                       "minecraft:command"}
          [] r = 2 -> {"module:read", "module:enable", "module:disable"}
          [] r = 3 -> {"module:read"}]

Username == [i \in UserIds |-> IF i = 1 THEN "alice" ELSE "bob"]
FirstEmail == [i \in UserIds |->
                IF i = 1 THEN "alice@example.com" ELSE "bob@example.com"]

\* pwd_context.hash: a bcrypt hash of the password.
get_password_hash(password) == <<"bcrypt", password>>

\* pwd_context.verify
verify_password(plain_password, hashed_password) ==
    hashed_password = <<"bcrypt", plain_password>>

\* No row with this id.
NoRow == [exists |-> FALSE, email |-> "", password_hash |-> <<>>,
          is_active |-> FALSE, is_superuser |-> FALSE, mfa_enabled |-> FALSE,
          mfa_secret |-> 0, last_login |-> -1, roles |-> {}, owns |-> {}]

\* A row as register() creates it (mfa_secret 0 and last_login -1 stand for
\* NULL).  roles are the user's rows of user_roles; owns names the other
\* tables holding rows whose user_id is this user's id (both gone with the
\* row: ON DELETE CASCADE and SET NULL).
NewRow(id, password) ==
    [exists |-> TRUE, email |-> FirstEmail[id],
     password_hash |-> get_password_hash(password),
     is_active |-> TRUE, is_superuser |-> FALSE, mfa_enabled |-> FALSE,
     mfa_secret |-> 0, last_login |-> -1, roles |-> {}, owns |-> {}]

\* User.permissions: the union of the roles' permissions.
Permissions(user) == UNION {RolePermissions[r] : r \in user.roles}

\* User.has_permission without the superuser short cut.
has_permission_roles_only(user, permission) == permission \in Permissions(user)

\* User.has_permission
has_permission(user, permission) ==
    IF user.is_superuser THEN TRUE ELSE permission \in Permissions(user)

----------------------------------------------------------------------------
(* api/core/security.py: the bearer-token dependencies *)

\* HTTPBearer(auto_error=False): no credentials, or the bearer token.
NoCredentials == [present |-> FALSE, token |-> MalformedToken]
Bearer(token) == [present |-> TRUE, token |-> token]

\* What a dependency hands on: the user's id, or the HTTPException it raised.
Resolved(id) == [status |-> 200, uid |-> id, detail |-> ""]
Raised(status, detail) == [status |-> status, uid |-> 0, detail |-> detail]

\* get_current_user: 401 without credentials, for a token that does not verify
\* as an access token, and for a subject that is no user's id.
get_current_user(users, credentials, now) ==
    IF ~credentials.present THEN Raised(401, "Not authenticated")
    ELSE LET token_payload == verify_token(credentials.token, "access", now)
         IN IF token_payload = None THEN Raised(401, "Invalid or expired token")
            ELSE LET id == PyInt(token_payload.sub)
                 IN IF id = -1 THEN Raised(500, "ValueError")
                    ELSE IF id \notin DOMAIN users \/ ~users[id].exists
                         THEN Raised(401, "User not found")
                    ELSE Resolved(id)

\* get_current_active_user without the is_active test.
get_current_any_user(users, credentials, now) ==
    get_current_user(users, credentials, now)

\* get_current_active_user: 403 for a user whose is_active is false.
get_current_active_user(users, credentials, now) ==
    LET current == get_current_user(users, credentials, now)
    IN IF current.status # 200 THEN current
       ELSE IF ~users[current.uid].is_active THEN Raised(403, "Inactive user")
       ELSE current

\* The detail of permission_checker's HTTPException:
\* f"Permission denied: {permission} required".
PermissionDenied(permission) == <<"Permission denied: ", permission, " required">>

\* require_permission(permission): the dependency it returns.
require_permission(permission, users, credentials, now) ==
    LET current == get_current_active_user(users, credentials, now)
    IN IF current.status # 200 THEN current
       ELSE IF ~has_permission(users[current.uid], permission)
            THEN Raised(403, PermissionDenied(permission))
       ELSE current

----------------------------------------------------------------------------
(* HTTP requests against the users table: shared state *)

\* A row of the modules table (api/models/module.py); exists = FALSE: no row.
NoModule == [exists |-> FALSE, is_core |-> FALSE, is_enabled |-> FALSE]

\* The last request and its response.  caller: the user the bearer token
\* resolved to (0: none); subject: the row the request was about, as it was
\* when the request arrived; code_ok: the submitted code verified as a TOTP
\* code against that row's mfa_secret; grants: the request set is_superuser;
\* module_name, module: the module a toggle names and its row before;
\* confirmation: the ?confirmation= of DELETE /users/me;
\* command, sent: the Minecraft command asked for, and what the RCON
\* transport received for this request (<<>>: nothing);
\* ran: the handler behind the dependencies ran;
\* tokens: the token pair issued (or None); token: the refresh token presented.
NoRequest ==
    [op |-> "none", status |-> 0, detail |-> "", caller |-> 0,
     module_name |-> "", module |-> NoModule,
     command |-> <<>>, sent |-> <<>>, confirmation |-> "",
     caller_row |-> NoRow, permission |-> "", ran |-> FALSE,
     subject |-> 0, subject_row |-> NoRow, pw_ok |-> FALSE, code |-> 0,
     code_ok |-> FALSE, grants |-> FALSE,
     token |-> MalformedToken, tokens |-> None, mfa_header |-> FALSE,
     audit |-> "none"]

\* AdminUserUpdate and the query parameters: an optional value is Unset
\* (None) or the set of its one value.
Unset == {}
Some(field) == CHOOSE v \in field : TRUE

\* Settings (config.py) declares no audit_log_enabled, store_ip_addresses or
\* store_user_agents, and ignores extra fields: reading them raises
\* AttributeError unless the settings object in use carries them.  The
\* setting is Unset, {FALSE} or {TRUE}.
AuditSettings == {Unset, {FALSE}, {TRUE}}

\* audit = AuditLog.create(...); db.add(audit): the entry is added when audit
\* logging is on; create() raises without the setting, and returns None when
\* it is off, which db.add() refuses (UnmappedInstanceError).
audit_added == audit_log_enabled = {TRUE}

\* AuditLog.create_and_add(db, ...) raises only without the setting.
create_and_add_raises == audit_log_enabled = Unset

\* The entry that create_and_add() adds, if any.
Audited(action) == IF audit_log_enabled = {TRUE} THEN action ELSE "none"

\* The guard raised: its HTTPException is the response, the handler never ran.
Denied(req, raised) ==
    /\ last' = [req EXCEPT !.status = raised.status, !.detail = raised.detail]
    /\ UNCHANGED userTable

\* The handler ran and raised HTTPException(status, detail); get_db rolls back.
Failed(req, status, detail) ==
    /\ last' = [req EXCEPT !.ran = TRUE, !.status = status, !.detail = detail]
    /\ UNCHANGED userTable

\* The clock starts late enough for tokens of every age to exist.
StartTime == 2 * refresh_token_expire_days * MinutesPerDay

\* The times at which the server may have minted a token a client still holds.
MintTimes(now) ==
    {now, now - refresh_token_expire_days * MinutesPerDay}

\* The tokens a client may present: minted by the server for a user id at an
\* earlier time, signed with another key, or no JWT at all.
PresentedTokens(now) ==
    {create_access_token([kind |-> "int", v |-> u], NoDelta, t) :
        u \in UserIds, t \in MintTimes(now)}
    \cup {create_refresh_token([kind |-> "int", v |-> u], NoDelta, t) :
        u \in UserIds, t \in MintTimes(now)}
    \cup {JwtEncode([sub |-> PyStrInt(u), exp |-> now + 1, iat |-> now,
                     type |-> "refresh"], ForeignKey) : u \in UserIds}
    \cup {MalformedToken}

\* The Authorization header of a request: none, or a bearer token (a live
\* access token of each user, an expired one, a refresh token).
PresentedCredentials(now) ==
    {NoCredentials}
    \cup {Bearer(create_access_token([kind |-> "int", v |-> u], NoDelta, now)) :
            u \in UserIds}
    \cup {Bearer(create_refresh_token([kind |-> "int", v |-> 1], NoDelta, now)),
          Bearer(create_access_token([kind |-> "int", v |-> 1], NoDelta,
                                     now - access_token_expire_minutes))}

\* select(User).where(or_(username == name, email == name)).scalar_one_or_none():
\* the id, or 0 for None.  Usernames are alphanumeric and e-mail addresses
\* hold an @, and both columns are unique, so at most one row matches.
FindUser(users, name) ==
    LET hits == {i \in DOMAIN users :
                    users[i].exists /\ (Username[i] = name \/ users[i].email = name)}
    IN IF hits = {} THEN 0 ELSE CHOOSE i \in hits : TRUE

TokenPair(uid, now) ==
    [access_token |-> create_access_token([kind |-> "int", v |-> uid], NoDelta, now),
     refresh_token |-> create_refresh_token([kind |-> "int", v |-> uid], NoDelta, now)]

----------------------------------------------------------------------------
(* api/routes/auth.py: login, MFA login and the MFA endpoints *)

Passwords == {"Password1", "Password2"}

\* pyotp: secrets (0 stands for mfa_secret = None) and 6-digit codes.
Secrets == {1}
Codes == {0, 1, 2}

\* pyotp.TOTP(secret).at(now): the one code that verifies at this time.
TotpAt(secret, now) == (secret + now) % 3

\* pyotp.TOTP(secret).verify(code)
TotpVerify(secret, code, now) == code = TotpAt(secret, now)

\* str.lower() on the names a client may send.
LoginNames == {"Alice", "alice@example.com", "BOB@example.com", "nobody"}
Lower(name) ==
    CASE name = "Alice" -> "alice"
      [] name = "BOB@example.com" -> "bob@example.com"
      [] OTHER -> name

\* The clock advances at most MaxAuthTicks times, a minute at a time (a TOTP
\* code lives for 30 seconds).
MaxAuthTicks == 1
AuthSteps == {1}

\* The table at start: registered users, with or without MFA set up, some
\* deactivated by an administrator since.
AuthInit ==
    /\ userTable \in [UserIds -> {NoRow} \cup
            {[NewRow(i, "Password1") EXCEPT
                    !.is_active = a, !.mfa_enabled = m,
                    !.mfa_secret = IF m THEN 1 ELSE 0] :
                i \in UserIds, a \in BOOLEAN, m \in BOOLEAN}]
    /\ \A i \in UserIds : userTable[i].exists => userTable[i].email = FirstEmail[i]
    /\ userTable[1].exists
    /\ userTable[2].exists => userTable[2].is_active
    /\ utcnow = StartTime
    /\ ticks = 0
    /\ last = NoRequest
    /\ audit_log_enabled \in AuditSettings

\* login(): "Check if MFA is required", with the check left out.
mfa_gate_open(user) == FALSE

\* login(): "Check if MFA is required".
mfa_required(user) == user.mfa_enabled

\* POST /auth/login
login ==
    \E name \in LoginNames, password \in Passwords :
        /\ LET uid == FindUser(userTable, Lower(name))
               user == IF uid = 0 THEN NoRow ELSE userTable[uid]
               pw_ok == uid # 0 /\ verify_password(password, user.password_hash)
               req == [NoRequest EXCEPT !.op = "login", !.ran = TRUE, !.subject = uid,
                                        !.subject_row = user, !.pw_ok = pw_ok]
           IN IF uid = 0 \/ ~pw_ok
              THEN IF ~audit_added THEN Failed(req, 500, "Internal Server Error")
                   ELSE /\ last' = [req EXCEPT !.status = 401,
                                        !.audit = "auth.login_failed",
                                        !.detail = "Invalid username or password"]
                        /\ UNCHANGED userTable
              ELSE IF ~user.is_active
              THEN /\ last' = [req EXCEPT !.status = 403, !.detail = "Account is disabled"]
                   /\ UNCHANGED userTable
              ELSE IF mfa_required(user)
              THEN /\ last' = [req EXCEPT !.status = 428, !.mfa_header = TRUE,
                                          !.detail = "MFA verification required"]
                   /\ UNCHANGED userTable
              ELSE IF ~audit_added THEN Failed(req, 500, "Internal Server Error")
              ELSE /\ userTable' = [userTable EXCEPT ![uid].last_login = utcnow]
                   /\ last' = [req EXCEPT !.status = 200, !.audit = "auth.login",
                                          !.tokens = TokenPair(uid, utcnow)]
        /\ UNCHANGED <<utcnow, ticks, audit_log_enabled>>
        /\ AuthFrame

\* login_with_mfa(): "if user.mfa_enabled and user.mfa_secret": whether the
\* submitted code is verified at all.
mfa_code_checked(user) == user.mfa_enabled /\ user.mfa_secret # 0

\* POST /auth/login/mfa
login_with_mfa ==
    \E name \in LoginNames, password \in Passwords, mfa_code \in Codes :
        /\ LET uid == FindUser(userTable, Lower(name))
               user == IF uid = 0 THEN NoRow ELSE userTable[uid]
               pw_ok == uid # 0 /\ verify_password(password, user.password_hash)
               req == [NoRequest EXCEPT !.op = "login_mfa", !.ran = TRUE, !.subject = uid,
                                        !.subject_row = user, !.pw_ok = pw_ok,
                                        !.code = mfa_code,
                                        !.code_ok = (user.mfa_secret # 0 /\
                                           TotpVerify(user.mfa_secret, mfa_code, utcnow))]
           IN IF uid = 0 \/ ~pw_ok
              THEN /\ last' = [req EXCEPT !.status = 401,
                                          !.detail = "Invalid username or password"]
                   /\ UNCHANGED userTable
              ELSE IF ~user.is_active
              THEN /\ last' = [req EXCEPT !.status = 403, !.detail = "Account is disabled"]
                   /\ UNCHANGED userTable
              ELSE IF mfa_code_checked(user) /\ ~TotpVerify(user.mfa_secret, mfa_code, utcnow)
              THEN /\ last' = [req EXCEPT !.status = 401, !.detail = "Invalid MFA code"]
                   /\ UNCHANGED userTable
              ELSE IF ~audit_added THEN Failed(req, 500, "Internal Server Error")
              ELSE /\ userTable' = [userTable EXCEPT ![uid].last_login = utcnow]
                   /\ last' = [req EXCEPT !.status = 200, !.audit = "auth.login",
                                          !.tokens = TokenPair(uid, utcnow)]
        /\ UNCHANGED <<utcnow, ticks, audit_log_enabled>>
        /\ AuthFrame

\* A request of the current user, who passed get_current_active_user.
OwnRequest(op, uid) ==
    [NoRequest EXCEPT !.op = op, !.ran = TRUE, !.caller = uid,
                      !.caller_row = userTable[uid], !.subject = uid,
                      !.subject_row = userTable[uid]]

\* POST /auth/mfa/enable; secret is pyotp.random_base32().
enable_mfa ==
    \E credentials \in PresentedCredentials(utcnow), secret \in Secrets :
        /\ LET current == get_current_active_user(userTable, credentials, utcnow)
               user == userTable[current.uid]
           IN IF current.status # 200 THEN Denied([NoRequest EXCEPT !.op = "mfa_enable"], current)
              ELSE IF user.mfa_enabled
              THEN /\ last' = [OwnRequest("mfa_enable", current.uid) EXCEPT
                                   !.status = 400, !.detail = "MFA is already enabled"]
                   /\ UNCHANGED userTable
              ELSE /\ userTable' = [userTable EXCEPT ![current.uid].mfa_secret = secret]
                   /\ last' = [OwnRequest("mfa_enable", current.uid) EXCEPT !.status = 200]
        /\ UNCHANGED <<utcnow, ticks, audit_log_enabled>>
        /\ AuthFrame

\* POST /auth/mfa/verify
verify_mfa ==
    \E credentials \in PresentedCredentials(utcnow), code \in Codes :
        /\ LET current == get_current_active_user(userTable, credentials, utcnow)
               user == userTable[current.uid]
               req == [OwnRequest("mfa_verify", current.uid) EXCEPT !.code = code]
           IN IF current.status # 200 THEN Denied([NoRequest EXCEPT !.op = "mfa_verify"], current)
              ELSE IF user.mfa_secret = 0
              THEN /\ last' = [req EXCEPT !.status = 400, !.detail = "MFA setup not initiated"]
                   /\ UNCHANGED userTable
              ELSE IF ~TotpVerify(user.mfa_secret, code, utcnow)
              THEN /\ last' = [req EXCEPT !.status = 400, !.detail = "Invalid MFA code"]
                   /\ UNCHANGED userTable
              ELSE IF ~audit_added THEN Failed(req, 500, "Internal Server Error")
              ELSE /\ userTable' = [userTable EXCEPT ![current.uid].mfa_enabled = TRUE]
                   /\ last' = [req EXCEPT !.status = 200, !.audit = "auth.mfa_enable"]
        /\ UNCHANGED <<utcnow, ticks, audit_log_enabled>>
        /\ AuthFrame

\* POST /auth/mfa/disable
disable_mfa ==
    \E credentials \in PresentedCredentials(utcnow), code \in Codes :
        /\ LET current == get_current_active_user(userTable, credentials, utcnow)
               user == userTable[current.uid]
               req == [OwnRequest("mfa_disable", current.uid) EXCEPT !.code = code]
           IN IF current.status # 200 THEN Denied([NoRequest EXCEPT !.op = "mfa_disable"], current)
              ELSE IF ~user.mfa_enabled
              THEN /\ last' = [req EXCEPT !.status = 400, !.detail = "MFA is not enabled"]
                   /\ UNCHANGED userTable
              ELSE IF ~TotpVerify(user.mfa_secret, code, utcnow)
              THEN /\ last' = [req EXCEPT !.status = 400, !.detail = "Invalid MFA code"]
                   /\ UNCHANGED userTable
              ELSE IF ~audit_added THEN Failed(req, 500, "Internal Server Error")
              ELSE /\ userTable' = [userTable EXCEPT ![current.uid].mfa_enabled = FALSE,
                                             ![current.uid].mfa_secret = 0]
                   /\ last' = [req EXCEPT !.status = 200, !.audit = "auth.mfa_disable"]
        /\ UNCHANGED <<utcnow, ticks, audit_log_enabled>>
        /\ AuthFrame

\* Time passes.
AuthTick ==
    \E d \in AuthSteps :
        /\ ticks < MaxAuthTicks
        /\ ticks' = ticks + 1
        /\ utcnow' = utcnow + d
        /\ UNCHANGED <<userTable, last, audit_log_enabled>>
        /\ AuthFrame

AuthNext ==
    \/ login \/ login_with_mfa
    \/ enable_mfa \/ verify_mfa \/ disable_mfa
    \/ AuthTick

----------------------------------------------------------------------------
(* api/routes/auth.py: POST /auth/refresh *)

\* refresh_tokens(): the user lookup accepts any row, active or not.
refresh_user_any(user) == user.exists

\* refresh_tokens(): "if user is None or not user.is_active" is the 401.
refresh_user_ok(user) == user.exists /\ user.is_active

\* refresh_tokens(): the token is verified as an access token.
refresh_verify_as_access(token, now) == verify_token(token, "access", now)

\* refresh_tokens(): verify_token(token_data.refresh_token, token_type="refresh")
refresh_verify(token, now) == verify_token(token, "refresh", now)

\* POST /auth/refresh
refresh_tokens ==
    \E token \in PresentedTokens(utcnow) :
        /\ LET token_payload == refresh_verify(token, utcnow)
               uid == IF token_payload = None THEN 0 ELSE PyInt(token_payload.sub)
               user == IF uid \in UserIds THEN userTable[uid] ELSE NoRow
               req == [NoRequest EXCEPT !.op = "refresh", !.ran = TRUE, !.token = token]
           IN /\ UNCHANGED userTable
              /\ IF token_payload = None
                 THEN last' = [req EXCEPT !.status = 401,
                                          !.detail = "Invalid or expired refresh token"]
                 ELSE IF uid = -1
                 THEN last' = [req EXCEPT !.status = 500, !.detail = "ValueError"]
                 ELSE IF ~refresh_user_ok(user)
                 THEN last' = [req EXCEPT !.status = 401, !.subject = uid,
                                          !.detail = "User not found or inactive"]
                 ELSE last' = [req EXCEPT !.status = 200, !.subject = uid,
                                          !.tokens = TokenPair(uid, utcnow)]
        /\ UNCHANGED <<utcnow, ticks, audit_log_enabled>>
        /\ AuthFrame

----------------------------------------------------------------------------
(* api/routes/users.py: the administrative user routes *)

\* A request to a route behind require_permission(permission): who the
\* bearer token designates (whether or not the guard then admits them).
GuardedRequest(op, permission, credentials, user_id) ==
    LET who == get_current_user(userTable, credentials, utcnow)
    IN [NoRequest EXCEPT !.op = op, !.permission = permission,
                         !.caller = who.uid,
                         !.caller_row = IF who.uid = 0 THEN NoRow
                                        ELSE userTable[who.uid],
                         !.subject = user_id]

\* select(User).where(User.id == user_id).scalar_one_or_none() found a row.
UserExists(user_id) == user_id \in UserIds /\ userTable[user_id].exists

\* GET /users/{user_id}
get_user ==
    \E credentials \in PresentedCredentials(utcnow), user_id \in UserIds :
        /\ LET current == require_permission("user:read", userTable, credentials, utcnow)
               req == GuardedRequest("get_user", "user:read", credentials, user_id)
           IN IF current.status # 200 THEN Denied(req, current)
              ELSE IF ~UserExists(user_id) THEN Failed(req, 404, "User not found")
              ELSE /\ last' = [req EXCEPT !.ran = TRUE, !.status = 200]
                   /\ UNCHANGED userTable
        /\ UNCHANGED <<utcnow, ticks, audit_log_enabled>>
        /\ AuthFrame

\* AdminUserUpdate: every field is optional.
EmptyUpdate == [email |-> Unset, is_active |-> Unset, is_superuser |-> Unset,
                role_ids |-> Unset]
AdminUserUpdates ==
    {EmptyUpdate,
     [EmptyUpdate EXCEPT !.email = {"bob@example.com"}],
     [EmptyUpdate EXCEPT !.is_active = {FALSE}],
     [EmptyUpdate EXCEPT !.is_active = {TRUE}],
     [EmptyUpdate EXCEPT !.is_superuser = {TRUE}],
     [EmptyUpdate EXCEPT !.is_superuser = {FALSE}],
     [EmptyUpdate EXCEPT !.role_ids = {{}}],
     [EmptyUpdate EXCEPT !.role_ids = {{1, 9}}]}

\* update_user(): "Prevent non-superusers from modifying superusers" and
\* "from granting superuser", with both checks left out.
update_forbidden_never(user, current_user, data) == FALSE

\* update_user(): "Prevent non-superusers from modifying superusers" and
\* "Prevent non-superusers from granting superuser".
update_forbidden(user, current_user, data) ==
    \/ user.is_superuser /\ ~current_user.is_superuser
    \/ data.is_superuser # Unset /\ ~current_user.is_superuser

\* PATCH /users/{user_id}
update_user ==
    \E credentials \in PresentedCredentials(utcnow), user_id \in UserIds,
        data \in AdminUserUpdates :
        /\ LET current == require_permission("user:write", userTable, credentials, utcnow)
               req == [GuardedRequest("update_user", "user:write", credentials, user_id)
                           EXCEPT !.grants = (data.is_superuser # Unset)]
               user == userTable[user_id]
               current_user == userTable[current.uid]
               email_taken == \E i \in UserIds \ {user_id} :
                                   userTable[i].exists /\ userTable[i].email = Some(data.email)
           IN IF current.status # 200 THEN Denied(req, current)
              ELSE IF ~UserExists(user_id) THEN Failed(req, 404, "User not found")
              ELSE IF update_forbidden(user, current_user, data)
              THEN Failed(req, 403, IF user.is_superuser THEN "Cannot modify a superuser"
                                    ELSE "Only superusers can grant superuser status")
              ELSE IF data.email # Unset /\ email_taken
              THEN Failed(req, 400, "Email already in use")
              ELSE IF create_and_add_raises
              THEN Failed(req, 500, "Internal Server Error")
              ELSE /\ userTable' = [userTable EXCEPT ![user_id] =
                       [user EXCEPT
                           !.email = IF data.email # Unset THEN Some(data.email) ELSE @,
                           !.is_active = IF data.is_active # Unset
                                         THEN Some(data.is_active) ELSE @,
                           !.is_superuser = IF data.is_superuser # Unset
                                            THEN Some(data.is_superuser) ELSE @,
                           !.roles = IF data.role_ids # Unset
                                     THEN Some(data.role_ids) \cap RoleIds ELSE @]]
                   /\ last' = [req EXCEPT !.ran = TRUE, !.status = 200,
                                          !.audit = Audited("user.update")]
        /\ UNCHANGED <<utcnow, ticks, audit_log_enabled>>
        /\ AuthFrame

\* delete_user(): "if user.is_superuser and not current_user.is_superuser",
\* with the check left out.
delete_forbidden_never(user, current_user) == FALSE

\* delete_user(): "if user.is_superuser and not current_user.is_superuser"
delete_forbidden(user, current_user) ==
    user.is_superuser /\ ~current_user.is_superuser

\* DELETE /users/{user_id}
delete_user ==
    \E credentials \in PresentedCredentials(utcnow), user_id \in UserIds :
        /\ LET current == require_permission("user:delete", userTable, credentials, utcnow)
               req == GuardedRequest("delete_user", "user:delete", credentials, user_id)
           IN IF current.status # 200 THEN Denied(req, current)
              ELSE IF user_id = current.uid
              THEN Failed(req, 400, "Cannot delete your own account")
              ELSE IF ~UserExists(user_id) THEN Failed(req, 404, "User not found")
              ELSE IF delete_forbidden(userTable[user_id], userTable[current.uid])
              THEN Failed(req, 403, "Cannot delete a superuser")
              ELSE IF create_and_add_raises
              THEN Failed(req, 500, "Internal Server Error")
              ELSE /\ userTable' = [userTable EXCEPT ![user_id] = NoRow]
                   /\ last' = [req EXCEPT !.ran = TRUE, !.status = 200,
                                          !.audit = Audited("user.delete")]
        /\ UNCHANGED <<utcnow, ticks, audit_log_enabled>>
        /\ AuthFrame

\* The table at start: users as an administrator may have left them, with
\* any of the seeded roles, the superuser flag set by scripts/seed.py; user 2
\* starts active (update_user may deactivate it).
UsersInit ==
    /\ userTable \in [UserIds ->
            {[NewRow(i, "Password1") EXCEPT
                    !.is_active = a, !.is_superuser = su, !.roles = r] :
                i \in UserIds, a \in BOOLEAN, su \in BOOLEAN,
                r \in {{}, {1}, {3}}}]
    /\ \A i \in UserIds : userTable[i].email = FirstEmail[i]
    /\ userTable[2].is_active
    /\ utcnow = StartTime
    /\ ticks = 0
    /\ last = NoRequest
    /\ audit_log_enabled \in AuditSettings

UsersNext ==
    \/ refresh_tokens
    \/ get_user \/ update_user \/ delete_user

----------------------------------------------------------------------------
(* api/websocket: manager.py, logs.py, status.py *)

bot_api_key == "bot-key"

WsIds == {1, 2}
Channels == {"logs", "status"}

\* The query string of a connection attempt: token and api_key, each absent
\* (Unset) or given.  The tokens are user 1's: a live access token, a live
\* refresh token, an expired access token.
WsQueries(now) ==
    LET access == create_access_token([kind |-> "int", v |-> 1], NoDelta, now)
        refresh == create_refresh_token([kind |-> "int", v |-> 1], NoDelta, now)
        expired == create_access_token([kind |-> "int", v |-> 1], NoDelta,
                                       now - access_token_expire_minutes)
    IN {[token |-> Unset, api_key |-> Unset],
        [token |-> {access}, api_key |-> Unset],
        [token |-> {refresh}, api_key |-> {"wrong-key"}],
        [token |-> {expired}, api_key |-> Unset],
        [token |-> {expired}, api_key |-> {bot_api_key}],
        [token |-> Unset, api_key |-> {bot_api_key}]}

\* authenticate_websocket() that takes any token that verifies, of any type.
authenticate_websocket_any_type(query, now) ==
    IF query.token # Unset
        /\ (\E ty \in {"access", "refresh"} :
                verify_token(Some(query.token), ty, now) # None)
    THEN TRUE
    ELSE query.api_key = {bot_api_key}

\* logs.py authenticate_websocket()
authenticate_websocket(query, now) ==
    IF query.token # Unset /\ verify_token(Some(query.token), "access", now) # None
    THEN TRUE
    ELSE query.api_key = {bot_api_key}

\* status.py get_ws_user(): the token's payload, the bot, or None.
get_ws_user(query, now) ==
    IF query.token # Unset /\ verify_token(Some(query.token), "access", now) # None
    THEN verify_token(Some(query.token), "access", now)
    ELSE IF query.api_key = {bot_api_key} THEN [bot |-> TRUE]
    ELSE None

\* A socket nobody has opened yet.  pc: where its handler stands; app_state:
\* starlette's application_state; client_open: the peer is still there;
\* frames: the types of the frames the peer has received, in order.
NoSocket ==
    [endpoint |-> "none", query |-> [token |-> Unset, api_key |-> Unset],
     pc |-> "idle", app_state |-> "CONNECTING", client_open |-> FALSE,
     close_code |-> 0, frames |-> <<>>, slow |-> FALSE]

\* list.remove(x): the first occurrence goes (ValueError is swallowed).
RECURSIVE RemoveFirst(_, _)
RemoveFirst(list, x) ==
    IF list = <<>> THEN <<>>
    ELSE IF Head(list) = x THEN Tail(list)
    ELSE <<Head(list)>> \o RemoveFirst(Tail(list), x)

\* ConnectionManager.connect(), the part under the lock; the dict is a
\* function whose domain is the channels that have a key.
Registered(connections, websocket, channel) ==
    IF channel \in DOMAIN connections
    THEN [connections EXCEPT ![channel] = Append(@, websocket)]
    ELSE [c \in DOMAIN connections \cup {channel} |->
            IF c = channel THEN <<websocket>> ELSE connections[c]]

\* disconnect() without "if not self._connections[channel]: del ...".
disconnect_keeps_key(connections, websocket, channel) ==
    IF channel \notin DOMAIN connections THEN connections
    ELSE [connections EXCEPT ![channel] = RemoveFirst(@, websocket)]

\* ConnectionManager.disconnect()
Disconnected(connections, websocket, channel) ==
    IF channel \notin DOMAIN connections THEN connections
    ELSE LET rest == RemoveFirst(connections[channel], websocket)
         IN IF rest = <<>>
            THEN [c \in DOMAIN connections \ {channel} |-> connections[c]]
            ELSE [connections EXCEPT ![channel] = rest]

\* websocket.send_json() succeeds while the peer is there and raises after.
CanSend(sock) == sock.app_state = "CONNECTED" /\ sock.client_open

\* ConnectionManager.send_personal(): the frame is sent if the socket is
\* CONNECTED; an exception of send_json is swallowed.
send_personal(sock, type) ==
    IF CanSend(sock) THEN [sock EXCEPT !.frames = Append(@, type)] ELSE sock

\* No broadcast in progress.
NoCast == [active |-> FALSE, owner |-> 0, channel |-> "none", type |-> "none",
           connections |-> <<>>, disconnected |-> <<>>]

\* Client messages and broadcasts are counted, at most MaxWsEvents of them.
MaxWsEvents == 1

WsInit ==
    /\ wsSock = [s \in WsIds |-> NoSocket]
    /\ wsConnections = <<>>
    /\ wsCast = NoCast
    /\ wsEvents = 0

\* A client connects (sockets are numbered as they arrive): the endpoint
\* authenticates it and either closes the socket with 4001 or calls
\* manager.connect(), which awaits accept().
WsOpen ==
    \E s \in WsIds, endpoint \in Channels, query \in WsQueries(utcnow) :
        /\ wsSock[s].pc = "idle"
        /\ \A r \in WsIds : r < s => wsSock[r].pc # "idle"
        /\ LET ok == IF endpoint = "logs"
                     THEN authenticate_websocket(query, utcnow)
                     ELSE get_ws_user(query, utcnow) # None
               sock == [NoSocket EXCEPT !.endpoint = endpoint, !.query = query]
           IN wsSock' = [wsSock EXCEPT ![s] =
                IF ok
                THEN [sock EXCEPT !.pc = "accepting", !.app_state = "CONNECTED",
                                  !.client_open = TRUE]
                ELSE [sock EXCEPT !.pc = "done", !.app_state = "DISCONNECTED",
                                  !.close_code = 4001]]
        /\ UNCHANGED <<wsConnections, wsCast, wsEvents>>
        /\ WsFrame

\* manager.connect() after accept(): the socket is appended to its channel
\* under the lock and the welcome frame is sent; nothing else runs between.
WsRegister ==
    \E s \in WsIds :
        /\ wsSock[s].pc = "accepting"
        /\ wsConnections' = Registered(wsConnections, s, wsSock[s].endpoint)
        /\ wsSock' = [wsSock EXCEPT ![s] =
                [send_personal(@, "connected") EXCEPT !.pc = "welcomed"]]
        /\ UNCHANGED <<wsCast, wsEvents>>
        /\ WsFrame

\* The endpoint's "subscribed" frame; then the receive loop.
WsSubscribed ==
    \E s \in WsIds :
        /\ wsSock[s].pc = "welcomed"
        /\ wsSock' = [wsSock EXCEPT ![s] =
                [send_personal(@, "subscribed") EXCEPT !.pc = "receiving"]]
        /\ UNCHANGED <<wsConnections, wsCast, wsEvents>>
        /\ WsFrame

\* ConnectionManager.broadcast(), up to its first send: the channel's list is
\* copied under the lock.
CastStarted(owner, channel, type) ==
    [active |-> TRUE, owner |-> owner, channel |-> channel, type |-> type,
     connections |-> IF channel \in DOMAIN wsConnections
                     THEN wsConnections[channel] ELSE <<>>,
     disconnected |-> <<>>]

\* receive_json() returned a message: ping, set_level (logs), status_update
\* (status, rebroadcast to the channel); anything else is ignored.
WsMessage ==
    \E s \in WsIds, type \in {"ping", "set_level", "status_update", "other"} :
        /\ wsSock[s].pc = "receiving" /\ wsSock[s].client_open
        /\ wsEvents < MaxWsEvents
        /\ wsEvents' = wsEvents + 1
        /\ IF type = "ping"
           THEN /\ wsSock' = [wsSock EXCEPT ![s] = send_personal(@, "pong")]
                /\ UNCHANGED wsCast
           ELSE IF type = "set_level" /\ wsSock[s].endpoint = "logs"
           THEN /\ wsSock' = [wsSock EXCEPT ![s] = send_personal(@, "level_changed")]
                /\ UNCHANGED wsCast
           ELSE IF type = "status_update" /\ wsSock[s].endpoint = "status"
                    /\ ~wsCast.active
           THEN /\ wsSock' = [wsSock EXCEPT ![s].pc = "rebroadcast"]
                /\ wsCast' = CastStarted(s, "status", "status")
           ELSE UNCHANGED <<wsSock, wsCast>>
        /\ UNCHANGED wsConnections
        /\ WsFrame

\* The peer goes away.
WsClientClose ==
    \E s \in WsIds :
        /\ wsSock[s].pc \in {"accepting", "welcomed", "receiving", "rebroadcast"}
        /\ wsSock[s].client_open
        /\ wsSock' = [wsSock EXCEPT ![s].client_open = FALSE]
        /\ UNCHANGED <<wsConnections, wsCast, wsEvents>>
        /\ WsFrame

\* receive_json() raises WebSocketDisconnect: finally manager.disconnect().
WsLoopEnds ==
    \E s \in WsIds :
        /\ wsSock[s].pc = "receiving" /\ ~wsSock[s].client_open
        /\ wsConnections' = Disconnected(wsConnections, s, wsSock[s].endpoint)
        /\ wsSock' = [wsSock EXCEPT ![s].pc = "done",
                                    ![s].app_state = "DISCONNECTED"]
        /\ UNCHANGED <<wsCast, wsEvents>>
        /\ WsFrame

\* broadcast_log(), broadcast_status(), broadcast_bot_event() called by
\* another task.
WsBroadcast ==
    \E channel \in Channels :
        /\ ~wsCast.active
        /\ wsEvents < MaxWsEvents
        /\ wsEvents' = wsEvents + 1
        /\ wsCast' = CastStarted(0, channel, IF channel = "logs" THEN "log" ELSE "status")
        /\ UNCHANGED <<wsSock, wsConnections>>
        /\ WsFrame

\* broadcast(): the send to the next socket of the copy.
WsCastSend ==
    /\ wsCast.active /\ wsCast.connections # <<>>
    /\ LET s == Head(wsCast.connections)
       IN IF CanSend(wsSock[s])
          THEN /\ wsSock' = [wsSock EXCEPT ![s].frames = Append(@, wsCast.type)]
               /\ wsCast' = [wsCast EXCEPT !.connections = Tail(@)]
          ELSE /\ wsCast' = [wsCast EXCEPT !.connections = Tail(@),
                                          !.disconnected = Append(@, s)]
               /\ UNCHANGED wsSock
    /\ UNCHANGED <<wsConnections, wsEvents>>
    /\ WsFrame

\* broadcast(): "Clean up disconnected", and the return to the caller.
RECURSIVE DisconnectedAll(_, _, _)
DisconnectedAll(connections, websockets, channel) ==
    IF websockets = <<>> THEN connections
    ELSE DisconnectedAll(Disconnected(connections, Head(websockets), channel),
                         Tail(websockets), channel)

WsCastDone ==
    /\ wsCast.active /\ wsCast.connections = <<>>
    /\ wsConnections' = DisconnectedAll(wsConnections, wsCast.disconnected,
                                        wsCast.channel)
    /\ wsCast' = NoCast
    /\ wsSock' = IF wsCast.owner = 0 THEN wsSock
                 ELSE [wsSock EXCEPT ![wsCast.owner].pc = "receiving"]
    /\ UNCHANGED wsEvents
    /\ WsFrame

WsNext ==
    \/ WsOpen \/ WsRegister \/ WsSubscribed
    \/ WsMessage \/ WsClientClose \/ WsLoopEnds
    \/ WsBroadcast \/ WsCastSend \/ WsCastDone

----------------------------------------------------------------------------
(* api/routes/bot.py: the module toggles *)

\* DEFAULT_MODULES, the rows scripts/seed.py inserts: admin is the core
\* module, minecraft starts disabled.  No route inserts or deletes a module
\* or writes is_core.
DEFAULT_MODULES ==
    [name \in {"admin", "moderation", "minecraft"} |->
        [exists |-> TRUE, is_core |-> name = "admin",
         is_enabled |-> name # "minecraft"]]

\* ModuleToggle.module_name: a seeded module or another name.
ModuleNames == DOMAIN DEFAULT_MODULES \cup {"music"}

\* select(Module).where(Module.name == module_name).scalar_one_or_none()
FindModule(module_name) ==
    IF module_name \in DOMAIN modules THEN modules[module_name] ELSE NoModule

\* A toggle request: who sent it, and the module row it names.
ToggleRequest(op, permission, credentials, module_name) ==
    [GuardedRequest(op, permission, credentials, 0) EXCEPT
        !.module_name = module_name, !.module = FindModule(module_name)]

\* POST /bot/module/enable
enable_module ==
    \E credentials \in PresentedCredentials(utcnow), module_name \in ModuleNames :
        /\ LET current == require_permission("module:enable", userTable,
                                             credentials, utcnow)
               req == ToggleRequest("enable_module", "module:enable",
                                    credentials, module_name)
           IN IF current.status # 200
              THEN Denied(req, current) /\ UNCHANGED modules
              ELSE IF ~req.module.exists
              THEN Failed(req, 404, "Module not found") /\ UNCHANGED modules
              ELSE IF ~audit_added
              THEN Failed(req, 500, "Internal Server Error") /\ UNCHANGED modules
              ELSE /\ modules' = [modules EXCEPT ![module_name].is_enabled = TRUE]
                   /\ last' = [req EXCEPT !.ran = TRUE, !.status = 200,
                                          !.audit = "module.enable"]
                   /\ UNCHANGED userTable
        /\ UNCHANGED <<utcnow, ticks, audit_log_enabled>>
        /\ ModFrame

\* disable_module() with the is_core check left out.
disable_refused_never(module) == FALSE

\* disable_module(): "if module.is_core: raise HTTPException(400, ...)"
disable_refused(module) == module.is_core

\* POST /bot/module/disable
disable_module ==
    \E credentials \in PresentedCredentials(utcnow), module_name \in ModuleNames :
        /\ LET current == require_permission("module:disable", userTable,
                                             credentials, utcnow)
               req == ToggleRequest("disable_module", "module:disable",
                                    credentials, module_name)
           IN IF current.status # 200
              THEN Denied(req, current) /\ UNCHANGED modules
              ELSE IF ~req.module.exists
              THEN Failed(req, 404, "Module not found") /\ UNCHANGED modules
              ELSE IF disable_refused(req.module)
              THEN Failed(req, 400, "Core modules cannot be disabled")
                   /\ UNCHANGED modules
              ELSE IF ~audit_added
              THEN Failed(req, 500, "Internal Server Error") /\ UNCHANGED modules
              ELSE /\ modules' = [modules EXCEPT ![module_name].is_enabled = FALSE]
                   /\ last' = [req EXCEPT !.ran = TRUE, !.status = 200,
                                          !.audit = "module.disable"]
                   /\ UNCHANGED userTable
        /\ UNCHANGED <<utcnow, ticks, audit_log_enabled>>
        /\ ModFrame

\* The seeded table.
ModulesInit == modules = DEFAULT_MODULES

\* The callers of the toggles: user 1 in any standing, user 2 an active
\* viewer.
TogglesInit ==
    /\ UsersInit
    /\ ~userTable[2].is_superuser
    /\ userTable[2].roles = {3}
    /\ ModulesInit

ModulesNext == enable_module \/ disable_module

----------------------------------------------------------------------------
(* api/core/security.py: API key or user; api/models/api_key.py *)

\* The X-API-Key values of the requests, as Python strings: their characters.
ApiKeyChars ==
    (bot_api_key :> <<"b", "o", "t", "-", "k", "e", "y">>)
    @@ ("key00001A" :> <<"k", "e", "y", "0", "0", "0", "0", "1", "A">>)
    @@ ("key00001B" :> <<"k", "e", "y", "0", "0", "0", "0", "1", "B">>)
    @@ ("key00002A" :> <<"k", "e", "y", "0", "0", "0", "0", "2", "A">>)
    @@ ("key9" :> <<"k", "e", "y", "9">>)

\* api_key[:8] if len(api_key) >= 8 else api_key
key_prefix(api_key) ==
    LET chars == ApiKeyChars[api_key]
    IN IF Len(chars) >= 8 THEN SubSeq(chars, 1, 8) ELSE chars

\* The attributes of an APIKey instance: the mapped columns of the class.
\* Migration 005 dropped last_used_at and usage_count, and the class maps
\* neither.
APIKeyAttributes ==
    {"id", "name", "description", "key_hash", "key_prefix", "user_id",
     "permissions", "rate_limit", "rate_limit_window", "is_active",
     "expires_at", "created_at"}

\* A row of api_keys (expires_at = -1: NULL); exists = FALSE: no row.
NoKey == [exists |-> FALSE, key_prefix |-> <<>>, key_hash |-> <<>>,
          is_active |-> FALSE, expires_at |-> -1]

\* The row stored when a key was issued: its prefix and its hash.
StoredKey(api_key, is_active, expires_at) ==
    [exists |-> TRUE, key_prefix |-> key_prefix(api_key),
     key_hash |-> get_password_hash(api_key),
     is_active |-> is_active, expires_at |-> expires_at]

\* APIKey.is_expired
is_expired(key, now) ==
    IF key.expires_at = -1 THEN FALSE ELSE now > key.expires_at

\* What get_api_key_or_user returns, (user, api_key, is_bot_key) with 0 for
\* None, or the exception it raised.
Resolution(user, api_key, is_bot_key) ==
    [user |-> user, api_key |-> api_key, is_bot_key |-> is_bot_key,
     raised |-> "none"]
ResolutionRaised(exception) ==
    [user |-> 0, api_key |-> 0, is_bot_key |-> FALSE, raised |-> exception]

\* verify_api_key: the id of the key (0 for None), or the exception raised.
\* Setting db_key.last_used_at only sets an instance attribute;
\* "db_key.usage_count += 1" reads usage_count first.
verify_api_key(keys, api_key, now) ==
    IF api_key = Unset THEN [key |-> 0, raised |-> "none"]
    ELSE IF Some(api_key) = bot_api_key THEN [key |-> 0, raised |-> "none"]
    ELSE LET hits == {k \in DOMAIN keys :
                        /\ keys[k].exists
                        /\ keys[k].key_prefix = key_prefix(Some(api_key))
                        /\ keys[k].is_active}
         IN IF hits = {} THEN [key |-> 0, raised |-> "none"]
            ELSE IF Cardinality(hits) > 1
            THEN [key |-> 0, raised |-> "MultipleResultsFound"]
            ELSE LET db_key == CHOOSE k \in hits : TRUE
                 IN IF ~verify_password(Some(api_key), keys[db_key].key_hash)
                    THEN [key |-> 0, raised |-> "none"]
                    ELSE IF is_expired(keys[db_key], now)
                    THEN [key |-> 0, raised |-> "none"]
                    ELSE IF "usage_count" \notin APIKeyAttributes
                    THEN [key |-> 0, raised |-> "AttributeError"]
                    ELSE [key |-> db_key, raised |-> "none"]

\* get_api_key_or_user
get_api_key_or_user(users, keys, credentials, api_key, now) ==
    IF api_key = {bot_api_key} THEN Resolution(0, 0, TRUE)
    ELSE LET token_payload ==
                IF credentials.present
                THEN verify_token(credentials.token, "access", now)
                ELSE None
             id == IF token_payload = None THEN 0 ELSE PyInt(token_payload.sub)
             key == verify_api_key(keys, api_key, now)
         IN IF id = -1 THEN ResolutionRaised("ValueError")
            ELSE IF id \in DOMAIN users /\ users[id].exists /\ users[id].is_active
            THEN Resolution(id, 0, FALSE)
            ELSE IF key.raised # "none" THEN ResolutionRaised(key.raised)
            ELSE Resolution(0, key.key, FALSE)

KeyIds == {1, 2}

\* The X-API-Key header: absent, or one of the strings.
ApiKeyHeaders == {Unset} \cup {{api_key} : api_key \in DOMAIN ApiKeyChars}

NoResolution ==
    [called |-> FALSE, credentials |-> NoCredentials, api_key |-> Unset,
     now |-> 0, result |-> Resolution(0, 0, FALSE)]

\* A route that depends on get_api_key_or_user is requested.
resolve_api_key_or_user ==
    \E credentials \in PresentedCredentials(utcnow), api_key \in ApiKeyHeaders :
        /\ resolution' =
                [called |-> TRUE, credentials |-> credentials,
                 api_key |-> api_key, now |-> utcnow,
                 result |-> get_api_key_or_user(userTable, apiKeys, credentials,
                                                api_key, utcnow)]
        /\ UNCHANGED apiKeys
        /\ KeyFrame

\* No keys issued, nothing resolved.
KeysIdle ==
    /\ apiKeys = [k \in KeyIds |-> NoKey]
    /\ resolution = NoResolution

\* Key 1 is in force; key 2 may have been revoked or given an expiry date.
\* User 1 exists, active or not; user 2 may exist.
KeysInit ==
    /\ \E a \in BOOLEAN, e \in {-1, StartTime - 1, StartTime + 1} :
            apiKeys = [k \in KeyIds |->
                        IF k = 1 THEN StoredKey("key00001A", TRUE, -1)
                        ELSE StoredKey("key00002A", a, e)]
    /\ resolution = NoResolution
    /\ \E a \in BOOLEAN, second \in BOOLEAN :
            userTable = [i \in UserIds |->
                IF i = 1 THEN [NewRow(1, "Password1") EXCEPT !.is_active = a]
                ELSE IF second THEN NewRow(2, "Password1") ELSE NoRow]
    /\ utcnow = StartTime /\ ticks = 0 /\ last = NoRequest
    /\ audit_log_enabled = Unset

KeysNext == resolve_api_key_or_user

----------------------------------------------------------------------------
(* api/routes/commands.py: the guild-access checks and their cache *)

_USER_GUILDS_TTL == 300
MANAGE_GUILD == 32

MaxChecks == 3
MaxClock == 2
Tasks == 1..MaxChecks
GuildUsers == {1, 2}

\* The clock advances in half lifetimes of a cache entry.
ClockStep == _USER_GUILDS_TTL \div 2

\* One entry of the list GET /users/@me/guilds returns.
Guild(id, owner, permissions) ==
    [id |-> id, owner |-> owner, permissions |-> permissions]

\* The lists Discord may hold, seen from guild "g1": the user is no member,
\* a member without MANAGE_GUILD, a member with it, or the owner.
GuildLists ==
    {<<Guild("g2", TRUE, 0)>>,
     <<Guild("g1", FALSE, 8)>>,
     <<Guild("g2", FALSE, 0), Guild("g1", FALSE, 8 + MANAGE_GUILD)>>,
     <<Guild("g1", TRUE, 0)>>}

\* The status codes Discord may answer with.
UpstreamStatus == {200, 401, 429, 500}

\* perms & MANAGE_GUILD
HasBit(perms, bit) == (perms \div bit) % 2 = 1

\* verify_guild_access, after the list is known: the first entry of the guild
\* decides; 403 unless the user owns the guild or has MANAGE_GUILD.
access_status(guilds, guild_id) ==
    LET hits == {i \in DOMAIN guilds : guilds[i].id = guild_id}
    IN IF hits = {} THEN 403
       ELSE LET guild == guilds[CHOOSE i \in hits : \A j \in hits : i <= j]
            IN IF guild.owner \/ HasBit(guild.permissions, MANAGE_GUILD)
               THEN 200 ELSE 403

\* verify_guild_member, after the list is known.
member_status(guilds, guild_id) ==
    IF \E i \in DOMAIN guilds : guilds[i].id = guild_id THEN 200 ELSE 403

\* What the check answers from a guild list.
CheckStatus(kind, guilds) ==
    IF kind = "access" THEN access_status(guilds, "g1")
    ELSE member_status(guilds, "g1")

\* _user_guilds_cache.get(user.id): None, or (timestamp, guilds).
NoEntry == [at |-> -1, guilds |-> <<>>]

\* "cached and (time.time() - cached[0]) < _USER_GUILDS_TTL"
cache_fresh(cached, now) ==
    cached # NoEntry /\ (now - cached.at) < _USER_GUILDS_TTL

\* _get_user_guilds without the second look at the cache.
recheck_skipped(cached, now) == FALSE

\* "3) Cache again inside lock (critical)"
recheck_inside_lock(cached, now) == cache_fresh(cached, now)

\* An asyncio.Lock: who holds it and who waits, in order of arrival.
NoLock == [created |-> FALSE, holder |-> 0, waiters |-> <<>>]

\* A check: where its task stands (idle, waiting for the lock, granted the
\* lock, calling Discord, sleeping after a 429, done), whether it waited for
\* the lock, how many calls it has issued, and its answer: the HTTP status
\* and where its guild list came from.
NoCheck ==
    [pc |-> "idle", user |-> 0, kind |-> "none", attempts |-> 0,
     waited |-> FALSE, status |-> 0, source |-> "none"]

\* A finished check: its task is gone, its answer is what remains.
Answered(check, status, source) ==
    [NoCheck EXCEPT !.pc = "done", !.user = check.user, !.kind = check.kind,
                    !.waited = check.waited,
                    !.status = status, !.source = source]

\* The check ends with this status; it held no lock.
Returns(t, check, status, source) ==
    /\ checks' = [checks EXCEPT ![t] = Answered(check, status, source)]
    /\ UNCHANGED _user_guilds_locks

\* The check ends inside "async with lock" without the lock's release.
returns_holding(t, check, status, source) == Returns(t, check, status, source)

\* The check ends with this status and leaves "async with lock": the lock
\* passes to the first waiter, which resumes when it is scheduled.
ReturnsReleasing(t, check, status, source) ==
    LET lock == _user_guilds_locks[check.user]
        next == IF lock.waiters = <<>> THEN 0 ELSE Head(lock.waiters)
    IN /\ checks' = [c \in Tasks |->
                IF c = t THEN Answered(check, status, source)
                ELSE IF c = next THEN [checks[c] EXCEPT !.pc = "granted"]
                ELSE checks[c]]
       /\ _user_guilds_locks' = [_user_guilds_locks EXCEPT ![check.user] =
                [lock EXCEPT !.holder = next,
                             !.waiters = IF next = 0 THEN <<>> ELSE Tail(lock.waiters)]]

\* Inside the lock: return the cached list if the second look finds it
\* fresh, else send the first request and await the response.
InsideLock(t, check) ==
    LET cached == _user_guilds_cache[check.user]
    IN IF recheck_inside_lock(cached, time_time)
       THEN ReturnsReleasing(t, check, CheckStatus(check.kind, cached.guilds),
                             "cache")
       ELSE /\ checks' = [checks EXCEPT ![t] =
                            [check EXCEPT !.pc = "calling", !.attempts = 1]]
            /\ UNCHANGED _user_guilds_locks

\* verify_guild_access / verify_guild_member up to the first await of
\* _get_user_guilds: a free lock is taken without yielding.
BeginCheck(t, user, kind) ==
    LET check == [NoCheck EXCEPT !.user = user, !.kind = kind]
        cached == _user_guilds_cache[user]
        lock == _user_guilds_locks[user]
    IN /\ checks[t].pc = "idle"
       /\ \A c \in Tasks : c < t => checks[c].pc # "idle"
       /\ IF discord[user].is_superuser
          THEN Returns(t, check, 200, "superuser")
          ELSE IF ~discord[user].mapped
          THEN Returns(t, check, 500, "AttributeError")
          ELSE IF discord[user].discord_access_token = Unset
          THEN Returns(t, check, 403, "unlinked")
          ELSE IF cache_fresh(cached, time_time)
          THEN Returns(t, check, CheckStatus(kind, cached.guilds), "cache")
          ELSE IF lock.holder # 0
          THEN /\ checks' = [checks EXCEPT ![t] =
                    [check EXCEPT !.pc = "waiting", !.waited = TRUE]]
               /\ _user_guilds_locks' = [_user_guilds_locks EXCEPT
                    ![user].waiters = Append(@, t)]
          ELSE /\ checks' = [checks EXCEPT ![t] =
                    [check EXCEPT !.pc = "calling", !.attempts = 1]]
               /\ _user_guilds_locks' = [_user_guilds_locks EXCEPT
                    ![user] = [created |-> TRUE, holder |-> t, waiters |-> <<>>]]

\* A route calls verify_guild_access(user, "g1").
verify_guild_access ==
    \E t \in Tasks, user \in GuildUsers :
        /\ BeginCheck(t, user, "access")
        /\ UNCHANGED <<time_time, discord, _user_guilds_cache>>
        /\ GuildFrame

\* A route calls verify_guild_member(user, "g1").
verify_guild_member ==
    \E t \in Tasks, user \in GuildUsers :
        /\ BeginCheck(t, user, "member")
        /\ UNCHANGED <<time_time, discord, _user_guilds_cache>>
        /\ GuildFrame

\* A waiter that was handed the lock resumes inside "async with lock".
LockAcquired ==
    \E t \in Tasks :
        /\ checks[t].pc = "granted"
        /\ InsideLock(t, checks[t])
        /\ UNCHANGED <<time_time, discord, _user_guilds_cache>>
        /\ GuildFrame

\* client.get() returns: 401/403 and other failures raise, 429 sleeps,
\* 200 stores (time.time(), guilds) and returns the list.
UpstreamResponds ==
    \E t \in Tasks, status_code \in UpstreamStatus, guilds \in GuildLists :
        LET check == checks[t]
            entry == [at |-> time_time, guilds |-> guilds]
        IN /\ check.pc = "calling"
           /\ status_code # 200 => guilds = <<Guild("g1", TRUE, 0)>>
           /\ IF status_code \in {401, 403}
              THEN /\ ReturnsReleasing(t, check, 403, "none")
                   /\ UNCHANGED _user_guilds_cache
              ELSE IF status_code = 429
              THEN /\ checks' = [checks EXCEPT ![t].pc = "sleeping"]
                   /\ UNCHANGED <<_user_guilds_locks, _user_guilds_cache>>
              ELSE IF status_code # 200
              THEN /\ ReturnsReleasing(t, check, 503, "none")
                   /\ UNCHANGED _user_guilds_cache
              ELSE /\ _user_guilds_cache' =
                        [_user_guilds_cache EXCEPT ![check.user] = entry]
                   /\ ReturnsReleasing(t, check, CheckStatus(check.kind, guilds),
                                       "upstream")
           /\ UNCHANGED <<time_time, discord>>
           /\ GuildFrame

\* "for _ in range(4)"
range_of_four_exhausted(attempts) == attempts >= 4

\* "for _ in range(3)" has no next item after this many requests.
range_exhausted(attempts) == attempts >= 3

\* asyncio.sleep(retry_after) is over: "for _ in range(3)" sends the next
\* request, or is exhausted and the check raises 503.
RetryAfterSleep ==
    \E t \in Tasks :
        LET check == checks[t]
        IN /\ check.pc = "sleeping"
           /\ IF ~range_exhausted(check.attempts)
              THEN /\ checks' = [checks EXCEPT ![t].pc = "calling",
                                               ![t].attempts = @ + 1]
                   /\ UNCHANGED _user_guilds_locks
              ELSE ReturnsReleasing(t, check, 503, "none")
           /\ UNCHANGED <<time_time, discord, _user_guilds_cache>>
           /\ GuildFrame

\* client.get() raises (no connection, or no answer within the client's 10
\* seconds): the exception leaves both "async with" blocks, the lock is
\* released, and the route answers 500.
UpstreamFails ==
    \E t \in Tasks :
        /\ checks[t].pc = "calling"
        /\ ReturnsReleasing(t, checks[t], 500, "transport")
        /\ UNCHANGED <<time_time, discord, _user_guilds_cache>>
        /\ GuildFrame

\* Time passes.
ClockAdvances ==
    /\ time_time < MaxClock * ClockStep
    /\ time_time' = time_time + ClockStep
    /\ UNCHANGED <<discord, _user_guilds_cache, _user_guilds_locks, checks>>
    /\ GuildFrame

\* A user as the checks see it.  The User class under api/models maps no
\* discord_access_token (mapped = FALSE: reading it raises AttributeError);
\* migration 002 adds the column, None until the account is linked.
DiscordUser(is_superuser, mapped, linked) ==
    [is_superuser |-> is_superuser, mapped |-> mapped,
     discord_access_token |-> IF linked THEN {"token"} ELSE Unset]

\* No check has begun.
GuildIdle ==
    /\ time_time = 0
    /\ discord = [u \in GuildUsers |-> DiscordUser(FALSE, FALSE, FALSE)]
    /\ _user_guilds_cache = [u \in GuildUsers |-> NoEntry]
    /\ _user_guilds_locks = [u \in GuildUsers |-> NoLock]
    /\ checks = [t \in Tasks |-> NoCheck]

\* User 1 has linked a Discord account; user 2 has not, or is a superuser.
GuildInit ==
    /\ time_time = 0
    /\ \E mapped \in BOOLEAN, second \in {"unlinked", "superuser"} :
        /\ ~mapped => second = "unlinked"
        /\ discord = [u \in GuildUsers |->
                IF u = 1 THEN DiscordUser(FALSE, mapped, mapped)
                ELSE DiscordUser(second = "superuser", mapped, FALSE)]
    /\ _user_guilds_cache = [u \in GuildUsers |-> NoEntry]
    /\ _user_guilds_locks = [u \in GuildUsers |-> NoLock]
    /\ checks = [t \in Tasks |-> NoCheck]

GuildNext ==
    \/ verify_guild_access \/ verify_guild_member
    \/ LockAcquired \/ UpstreamResponds \/ RetryAfterSleep
    \/ ClockAdvances

----------------------------------------------------------------------------
(* api/routes/minecraft.py: POST /minecraft/command *)

\* Python strings are sequences of characters here.
BLOCKED_COMMANDS ==
    {<<"s", "t", "o", "p">>,
     <<"r", "e", "s", "t", "a", "r", "t">>,
     <<"s", "h", "u", "t", "d", "o", "w", "n">>,
     <<"o", "p">>,
     <<"d", "e", "o", "p">>,
     <<"b", "a", "n", "-", "i", "p">>,
     <<"p", "a", "r", "d", "o", "n", "-", "i", "p">>}

\* MinecraftCommand.command: between 1 and 500 characters.
MinecraftCommands ==
    {<<"s", "t", "o", "p">>,
     <<"S", "T", "O", "P">>,
     <<" ", "S", "t", "o", "p", " ">>,
     <<"s", "t", "o", "p", "w", "a", "t", "c", "h">>,
     <<"O", "p", " ", "S", "t", "e", "v", "e">>,
     <<"d", "e", "o", "p", " ", "S", "t", "e", "v", "e">>,
     <<"B", "A", "N", "-", "I", "P", " ", "1">>,
     <<"p", "a", "r", "d", "o", "n", "-", "i", "p", " ", "1">>,
     <<"R", "e", "s", "t", "a", "r", "t">>,
     <<"s", "h", "u", "t", "d", "o", "w", "n">>,
     <<"l", "i", "s", "t">>,
     <<"s", "a", "y", " ", "s", "t", "o", "p">>,
     <<"/", "s", "t", "o", "p">>}

\* str.lower(), character by character.
lower_char(c) ==
    CASE c = "A" -> "a"
      [] c = "B" -> "b"
      [] c = "I" -> "i"
      [] c = "N" -> "n"
      [] c = "O" -> "o"
      [] c = "P" -> "p"
      [] c = "R" -> "r"
      [] c = "S" -> "s"
      [] c = "T" -> "t"
      [] OTHER -> c
str_lower(s) == [i \in DOMAIN s |-> lower_char(s[i])]

\* str.strip(): without the whitespace at either end.
RECURSIVE str_lstrip(_)
str_lstrip(s) ==
    IF s # <<>> /\ Head(s) = " " THEN str_lstrip(Tail(s)) ELSE s
RECURSIVE str_rstrip(_)
str_rstrip(s) ==
    IF s # <<>> /\ s[Len(s)] = " " THEN str_rstrip(SubSeq(s, 1, Len(s) - 1)) ELSE s
str_strip(s) == str_rstrip(str_lstrip(s))

\* str.startswith()
startswith(s, prefix) ==
    Len(prefix) <= Len(s) /\ SubSeq(s, 1, Len(prefix)) = prefix

\* The security check without lower().
is_blocked_as_typed(command) ==
    \E blocked \in BLOCKED_COMMANDS : startswith(command, blocked)

\* "for blocked in BLOCKED_COMMANDS: if command_lower.startswith(blocked)"
is_blocked(command) ==
    \E blocked \in BLOCKED_COMMANDS : startswith(str_lower(command), blocked)

\* POST /minecraft/command; up: the RCON connection succeeds.
execute_minecraft_command ==
    \E credentials \in PresentedCredentials(utcnow),
       text \in MinecraftCommands, up \in BOOLEAN :
        /\ LET current == require_permission("minecraft:command", userTable,
                                             credentials, utcnow)
               req == [GuardedRequest("minecraft_command", "minecraft:command",
                                      credentials, 0) EXCEPT !.command = text]
               command == str_strip(text)
           IN IF current.status # 200 THEN Denied(req, current)
              ELSE IF ~rcon_enabled
              THEN Failed(req, 503, "Minecraft RCON is not enabled")
              ELSE IF is_blocked(command)
              THEN Failed(req, 403, "Command is not allowed")
              ELSE IF ~up
              THEN Failed(req, 503, "Failed to execute command")
              ELSE IF ~audit_added
              THEN Failed([req EXCEPT !.sent = command], 500,
                          "Internal Server Error")
              ELSE /\ last' = [req EXCEPT !.ran = TRUE, !.status = 200,
                                          !.sent = command,
                                          !.audit = "minecraft.command"]
                   /\ UNCHANGED userTable
        /\ UNCHANGED <<utcnow, ticks, audit_log_enabled, rcon_enabled>>
        /\ McFrame

\* RCON is off unless the environment turns it on.
McIdle == rcon_enabled = FALSE

\* The callers: user 1 in any standing, user 2 an active viewer.
McInit ==
    /\ UsersInit
    /\ ~userTable[2].is_superuser /\ userTable[2].roles = {3}
    /\ rcon_enabled \in BOOLEAN

McNext == execute_minecraft_command

----------------------------------------------------------------------------
(* api/tasks/cleanup.py, api/routes/audit.py: retention of audit logs *)

MaxDay == 3
AuditIds == {1, 2}

\* A row of audit_logs; created_at in days; ip_address and user_agent are
\* nullable.  Ids come from a sequence: the id of a deleted row is not given
\* out again.
NoAuditRow ==
    [exists |-> FALSE, deleted |-> FALSE, created_at |-> 0,
     ip_address |-> Unset, user_agent |-> Unset, anonymized |-> FALSE]
DeletedRow == [NoAuditRow EXCEPT !.deleted = TRUE]

\* What a request leaves in a new row: the client's address and agent, or
\* None for both when the store_... settings are off or the request has none.
RequestMetadata ==
    {[ip_address |-> Unset, user_agent |-> Unset],
     [ip_address |-> {"203.0.113.7"}, user_agent |-> {"curl/8.5"}]}

\* AuditLog(...) as create() builds it, inserted at now(); anonymized
\* defaults to false.
NewAuditRow(metadata, now) ==
    [exists |-> TRUE, deleted |-> FALSE, created_at |-> now,
     ip_address |-> metadata.ip_address, user_agent |-> metadata.user_agent,
     anonymized |-> FALSE]

\* .values(...) of both anonymizing updates, without the ip_address.
anonymized_values_keep_ip(row) ==
    [row EXCEPT !.user_agent = {"[ANONYMIZED]"}, !.anonymized = TRUE]

\* .values(ip_address="0.0.0.0", user_agent="[ANONYMIZED]", anonymized=True)
anonymized_values(row) ==
    [row EXCEPT !.ip_address = {"0.0.0.0"}, !.user_agent = {"[ANONYMIZED]"},
                !.anonymized = TRUE]

\* getattr(settings, name, default)
getattr(field, default) == IF field = Unset THEN default ELSE Some(field)
retention_days == getattr(retention_settings.audit_log_retention_days, 1)
anonymize_days == getattr(retention_settings.audit_log_anonymize_after_days, 0)

\* The task's UPDATE: rows with anonymize_cutoff > created_at >= delete_cutoff
\* that are not anonymized yet.
cleanup_anonymizes(row, anonymize_cutoff, delete_cutoff) ==
    /\ row.exists
    /\ row.created_at < anonymize_cutoff
    /\ row.created_at >= delete_cutoff
    /\ ~row.anonymized

\* The task's DELETE: rows with created_at < delete_cutoff.
cleanup_deletes(row, delete_cutoff) ==
    row.exists /\ row.created_at < delete_cutoff

\* The UPDATE, then the DELETE, of one cleanup transaction.
cleanup_result(rows, anonymize_cutoff, delete_cutoff) ==
    [id \in AuditIds |->
        IF cleanup_deletes(rows[id], delete_cutoff) THEN DeletedRow
        ELSE IF cleanup_anonymizes(rows[id], anonymize_cutoff, delete_cutoff)
        THEN anonymized_values(rows[id])
        ELSE rows[id]]

\* The scheduler task: pc is where it stands (cycle: about to call
\* cleanup_old_audit_logs(); db: inside its session; sleep: in
\* asyncio.sleep(delay); finished: the coroutine returned; cancelled: it
\* ended in CancelledError); delay: the sleep it is in or came out of (0: the
\* task has not run yet); the cutoffs of the cycle under way; the outcome of
\* the last cycle; must_cancel: Task.cancel() was called and the
\* CancelledError is still to be thrown into the coroutine.
NoCleanup ==
    [pc |-> "cycle", delay |-> 0, anonymize_cutoff |-> 0, delete_cutoff |-> 0,
     outcome |-> "none", must_cancel |-> FALSE]

\* What the last cycle logged, if anything: the scheduler's error for an
\* exception out of the cycle, the cycle's own error for one inside its try.
logged(task) ==
    CASE task.outcome = "raised" -> "Error in cleanup scheduler"
      [] task.outcome = "db_error" -> "Error during audit log cleanup"
      [] OTHER -> ""

\* cleanup_old_audit_logs() up to its first statement in the session.
\* Reading settings.audit_log_enabled is outside the try: without the
\* setting the call raises into run_cleanup_scheduler(), which logs the
\* error and sleeps an hour.
cleanup_old_audit_logs ==
    /\ cleanup_task.pc = "cycle"
    /\ ~cleanup_task.must_cancel
    /\ cleanup_task' =
        IF audit_log_enabled = Unset
        THEN [cleanup_task EXCEPT !.pc = "sleep", !.delay = 3600,
                                  !.outcome = "raised"]
        ELSE IF audit_log_enabled = {FALSE}
        THEN [cleanup_task EXCEPT !.pc = "sleep", !.delay = 86400,
                                  !.outcome = "skipped"]
        ELSE [cleanup_task EXCEPT !.pc = "db",
                                  !.delete_cutoff = audit_today - retention_days,
                                  !.anonymize_cutoff = audit_today - anonymize_days]
    /\ UNCHANGED <<audit_logs, audit_today, retention_settings>>
    /\ UNCHANGED authVars
    /\ RetFrame

\* The session's update, delete and commit; a database error is logged by
\* cleanup_old_audit_logs() itself and leaves the table as it was.  Then the
\* scheduler sleeps a day.
CleanupTransaction ==
    /\ cleanup_task.pc = "db"
    /\ ~cleanup_task.must_cancel
    /\ \E ok \in BOOLEAN :
        /\ audit_logs' =
            IF ok THEN cleanup_result(audit_logs, cleanup_task.anonymize_cutoff,
                                      cleanup_task.delete_cutoff)
            ELSE audit_logs
        /\ cleanup_task' =
            [NoCleanup EXCEPT !.pc = "sleep", !.delay = 86400,
                              !.outcome = IF ok THEN "committed" ELSE "db_error"]
    /\ UNCHANGED <<audit_today, retention_settings>>
    /\ UNCHANGED authVars
    /\ RetFrame

\* asyncio.sleep() returns: the loop goes round.
SleepEnds ==
    /\ cleanup_task.pc = "sleep"
    /\ ~cleanup_task.must_cancel
    /\ cleanup_task' = [cleanup_task EXCEPT !.pc = "cycle"]
    /\ UNCHANGED <<audit_logs, audit_today, retention_settings>>
    /\ UNCHANGED authVars
    /\ RetFrame

DayPasses ==
    /\ audit_today < MaxDay
    /\ audit_today' = audit_today + 1
    /\ UNCHANGED <<audit_logs, retention_settings, cleanup_task>>
    /\ UNCHANGED authVars
    /\ RetFrame

\* A route writes its audit entry: AuditLog.create(...); db.add(); commit.
AuditWrite ==
    /\ audit_added
    /\ \E metadata \in RequestMetadata, id \in AuditIds :
        /\ audit_logs[id] = NoAuditRow
        /\ \A other \in AuditIds : other < id => audit_logs[other] # NoAuditRow
        /\ audit_logs' =
            [audit_logs EXCEPT ![id] = NewAuditRow(metadata, audit_today)]
    /\ UNCHANGED <<audit_today, retention_settings, cleanup_task>>
    /\ UNCHANGED authVars
    /\ RetFrame

\* ?days= of the two admin routes.
AdminDays == {0, 1}

\* Depends(require_permission("audit:admin")): a caller the guard rejects
\* is answered 401 or 403 and changes nothing.
audit_admin(credentials) ==
    require_permission("audit:admin", userTable, credentials, utcnow).status = 200

\* POST /audit/cleanup
admin_cleanup_old_audit_logs ==
    /\ \E credentials \in PresentedCredentials(utcnow), days \in AdminDays :
        /\ audit_admin(credentials)
        /\ audit_logs' =
            [id \in AuditIds |->
                IF cleanup_deletes(audit_logs[id], audit_today - days)
                THEN DeletedRow ELSE audit_logs[id]]
    /\ UNCHANGED <<audit_today, retention_settings, cleanup_task>>
    /\ UNCHANGED authVars
    /\ RetFrame

\* The route's UPDATE: rows with created_at < cutoff not anonymized yet.
admin_anonymizes(row, cutoff) ==
    row.exists /\ row.created_at < cutoff /\ ~row.anonymized

\* POST /audit/anonymize
anonymize_old_audit_logs ==
    /\ \E credentials \in PresentedCredentials(utcnow), days \in AdminDays :
        /\ audit_admin(credentials)
        /\ audit_logs' =
            [id \in AuditIds |->
                IF admin_anonymizes(audit_logs[id], audit_today - days)
                THEN anonymized_values(audit_logs[id])
                ELSE audit_logs[id]]
    /\ UNCHANGED <<audit_today, retention_settings, cleanup_task>>
    /\ UNCHANGED authVars
    /\ RetFrame

\* The CancelledError reaches the coroutine where it waits.  In the session
\* of a cycle it passes "except Exception" (it is a BaseException), the
\* transaction is rolled back, and the scheduler's "except
\* asyncio.CancelledError" breaks the loop; so it does in the 24-hour sleep.
\* The one-hour sleep is inside the "except Exception" handler, outside the
\* try: there the error ends the task as cancelled, as it does a task that
\* has not run yet.
CancelDelivered ==
    /\ cleanup_task.must_cancel
    /\ cleanup_task.pc \in {"cycle", "db", "sleep"}
    /\ cleanup_task' =
        [cleanup_task EXCEPT
            !.must_cancel = FALSE,
            !.pc = IF cleanup_task.pc = "db" \/ cleanup_task.delay = 86400
                   THEN "finished" ELSE "cancelled"]
    /\ UNCHANGED <<audit_logs, audit_today, retention_settings, lifespan>>
    /\ UNCHANGED authVars
    /\ LifeFrame

\* Application.lifespan after startup: the task is created, the server runs.
Serving == [pc |-> "serving", disposed |-> FALSE]

\* Shutdown begins: "if self.cleanup_task: self.cleanup_task.cancel()".
lifespan_cancels ==
    /\ lifespan.pc = "serving"
    /\ lifespan' = [lifespan EXCEPT !.pc = "awaiting"]
    /\ cleanup_task' =
        IF cleanup_task.pc \in {"finished", "cancelled"} THEN cleanup_task
        ELSE [cleanup_task EXCEPT !.must_cancel = TRUE]
    /\ UNCHANGED <<audit_logs, audit_today, retention_settings>>
    /\ UNCHANGED authVars
    /\ LifeFrame

\* "await self.cleanup_task", with the await left out.
task_done_any(task) == TRUE

\* "await self.cleanup_task" returns, or raises the CancelledError that the
\* lifespan passes over, once the task is done.
task_done(task) == task.pc \in {"finished", "cancelled"}

lifespan_awaits ==
    /\ lifespan.pc = "awaiting"
    /\ task_done(cleanup_task)
    /\ lifespan' = [lifespan EXCEPT !.pc = "closing"]
    /\ UNCHANGED retVars
    /\ UNCHANGED authVars
    /\ LifeFrame

\* await close_db(): engine.dispose()
close_db ==
    /\ lifespan.pc = "closing"
    /\ lifespan' = [pc |-> "complete", disposed |-> TRUE]
    /\ UNCHANGED retVars
    /\ UNCHANGED authVars
    /\ LifeFrame

LifeIdle == lifespan = Serving

RetIdle ==
    /\ audit_logs = [id \in AuditIds |-> NoAuditRow]
    /\ audit_today = 0
    /\ retention_settings = [audit_log_retention_days |-> Unset,
                             audit_log_anonymize_after_days |-> Unset]
    /\ cleanup_task = NoCleanup

\* The table holds rows of earlier runs, none anonymized (migration 004 adds
\* the column with default false); user 1 is the superuser, user 2 a viewer.
RetentionInit ==
    /\ UsersInit
    /\ userTable[1].is_active /\ userTable[1].is_superuser
    /\ userTable[1].roles = {}
    /\ ~userTable[2].is_superuser /\ userTable[2].roles = {3}
    /\ audit_today = 2
    /\ audit_logs \in [AuditIds ->
            {NoAuditRow} \cup {NewAuditRow(m, d) :
                                m \in RequestMetadata, d \in 0..2}]
    /\ \A id \in AuditIds : audit_logs[id].exists =>
            \A other \in AuditIds : other < id => audit_logs[other].exists
    /\ retention_settings \in
            {[audit_log_retention_days |-> Unset,
              audit_log_anonymize_after_days |-> Unset],
             [audit_log_retention_days |-> {2},
              audit_log_anonymize_after_days |-> {1}]}
    /\ cleanup_task = NoCleanup

RetentionNext ==
    \/ cleanup_old_audit_logs \/ CleanupTransaction \/ SleepEnds
    \/ DayPasses \/ AuditWrite
    \/ admin_cleanup_old_audit_logs \/ anonymize_old_audit_logs

----------------------------------------------------------------------------
(* api/routes/users.py: DELETE /users/me and the routes in its way *)

\* The DELETE routes of the users router, in the order users.py declares
\* them (delete_user on line 260, delete_user_account on line 374).
UsersDeleteRoutes ==
    <<[path |-> "/{user_id}", endpoint |-> "delete_user"],
      [path |-> "/me", endpoint |-> "delete_user_account"]>>

\* Starlette compiles {user_id} to [^/]+ : the parameter matches any one
\* segment, and its conversion to int comes after the route is chosen.
path_matches(path, segment) ==
    IF path = "/{user_id}" THEN segment # <<>>
    ELSE path = "/me" /\ segment = <<"m", "e">>

\* Router: the first route, in order, whose path and method match.
route_for(routes, segment) ==
    LET matching == {i \in DOMAIN routes : path_matches(routes[i].path, segment)}
        first == CHOOSE i \in matching : \A j \in matching : i <= j
    IN routes[first].endpoint

\* ?confirmation= : the exact string, a near-miss and another.
Confirmations == {"DELETE MY ACCOUNT", "delete my account", "yes"}

\* delete_user_account(): the audit logs, API keys and role assignments of
\* the user are deleted, then the user row.
account_deleted(users, uid) == [users EXCEPT ![uid] = NoRow]

\* DELETE /users/me?confirmation=...
delete_users_me ==
    \E credentials \in PresentedCredentials(utcnow), confirmation \in Confirmations :
        /\ LET endpoint == route_for(UsersDeleteRoutes, <<"m", "e">>)
               who == get_current_user(userTable, credentials, utcnow)
               req == [NoRequest EXCEPT
                        !.op = "delete_users_me", !.caller = who.uid,
                        !.caller_row = IF who.uid = 0 THEN NoRow
                                       ELSE userTable[who.uid],
                        !.confirmation = confirmation]
           IN IF endpoint = "delete_user"
              THEN \* delete_user(user_id: int, ...) behind its guard
                   LET current == require_permission("user:delete", userTable,
                                                     credentials, utcnow)
                   IN IF current.status # 200 THEN Denied(req, current)
                      ELSE IF PyInt(<<"m", "e">>) = -1
                      THEN Failed(req, 422, "Unprocessable Entity")
                      ELSE Failed(req, 404, "User not found")
              ELSE \* delete_user_account()
                   LET current == get_current_active_user(userTable,
                                                          credentials, utcnow)
                   IN IF current.status # 200 THEN Denied(req, current)
                      ELSE IF confirmation # "DELETE MY ACCOUNT"
                      THEN Failed(req, 400,
                                  "Confirmation required: 'DELETE MY ACCOUNT'")
                      ELSE IF create_and_add_raises
                      THEN Failed(req, 500, "Internal Server Error")
                      ELSE /\ userTable' = account_deleted(userTable, current.uid)
                           /\ last' = [req EXCEPT !.ran = TRUE, !.status = 200,
                                                  !.audit = Audited("user.delete")]
        /\ UNCHANGED <<utcnow, ticks, audit_log_enabled>>
        /\ AuthFrame

\* User 1 in any standing, with or without audit logs and API keys of their
\* own; user 2 an active viewer.
AccountInit ==
    /\ userTable \in [UserIds ->
            {[NewRow(i, "Password1") EXCEPT
                    !.is_active = a, !.is_superuser = su, !.roles = r,
                    !.owns = o] :
                i \in UserIds, a \in BOOLEAN, su \in BOOLEAN,
                r \in {{}, {1}, {3}}, o \in {{}, {"audit_logs", "api_keys"}}}]
    /\ \A i \in UserIds : userTable[i].email = FirstEmail[i]
    /\ userTable[2].is_active /\ ~userTable[2].is_superuser
    /\ userTable[2].roles = {3}
    /\ utcnow = StartTime
    /\ ticks = 0
    /\ last = NoRequest
    /\ audit_log_enabled \in AuditSettings

AccountNext == delete_user \/ delete_users_me

----------------------------------------------------------------------------
(* api/routes/settings.py: POST /settings *)

MaxCreates == 3
SettingsTasks == {1, 2}
GuildIds == {"111", "222"}

\* BotSettingsCreate: the guild and, of the other fields, the prefix.
SettingsPayloads ==
    {[guild_id |-> g, prefix |-> p] : g \in GuildIds, p \in {"!", "?"}}

\* A request: pc is where its handler stands (selected: between the SELECT
\* and the commit); ran: the authorization check let it through.
NoSettingsCall ==
    [pc |-> "idle", payload |-> [guild_id |-> "", prefix |-> ""],
     ran |-> FALSE, status |-> 0]

\* select(BotSettings).where(BotSettings.guild_id == guild_id)
settings_rows(rows, guild_id) ==
    SelectSeq(rows, LAMBDA row : row.guild_id = guild_id)

\* "if result.scalar_one_or_none()", with the check left out.
settings_exist_never(rows, guild_id) == FALSE

\* "if result.scalar_one_or_none()": settings already exist.
settings_exist(rows, guild_id) == settings_rows(rows, guild_id) # <<>>

\* "if not is_bot_key and (user is None or not
\* user.has_permission("settings:write"))"
settings_write_denied(auth) ==
    /\ ~auth.is_bot_key
    /\ \/ auth.user = 0
       \/ ~has_permission(userTable[auth.user], "settings:write")

\* The X-API-Key header of the callers: none, or the bot's key.
SettingsApiKeys == {Unset, {bot_api_key}}

\* create_guild_settings() up to its commit.
create_guild_settings(t) ==
    /\ settings_calls[t].pc # "selected"
    /\ settings_started < MaxCreates
    /\ settings_started' = settings_started + 1
    /\ \E credentials \in PresentedCredentials(utcnow),
          api_key \in SettingsApiKeys, settings_data \in SettingsPayloads :
        LET auth == get_api_key_or_user(userTable, apiKeys, credentials,
                                        api_key, utcnow)
            call == [NoSettingsCall EXCEPT !.pc = "done",
                                           !.payload = settings_data]
        IN settings_calls' = [settings_calls EXCEPT ![t] =
            IF auth.raised # "none" THEN [call EXCEPT !.status = 500]
            ELSE IF settings_write_denied(auth)
            THEN [call EXCEPT !.status = 403]
            ELSE IF settings_exist(bot_settings, settings_data.guild_id)
            THEN [call EXCEPT !.ran = TRUE, !.status = 400]
            ELSE [call EXCEPT !.ran = TRUE, !.pc = "selected"]]
    /\ UNCHANGED bot_settings
    /\ SetFrame

\* db.add(settings); await db.commit(): guild_id is unique
\* (uq_bot_settings_guild_id), so the INSERT of a second row for the guild
\* raises IntegrityError.
CreateCommits(t) ==
    /\ settings_calls[t].pc = "selected"
    /\ LET settings == settings_calls[t].payload
       IN IF settings_rows(bot_settings, settings.guild_id) # <<>>
          THEN /\ settings_calls' =
                    [settings_calls EXCEPT ![t].pc = "done", ![t].status = 500]
               /\ UNCHANGED bot_settings
          ELSE /\ settings_calls' =
                    [settings_calls EXCEPT ![t].pc = "done", ![t].status = 201]
               /\ bot_settings' = Append(bot_settings, settings)
    /\ UNCHANGED settings_started
    /\ SetFrame

SetIdle ==
    /\ bot_settings = <<>>
    /\ settings_calls = [t \in SettingsTasks |-> NoSettingsCall]
    /\ settings_started = 0

\* No guild has settings yet; user 1 is a superuser, active or not, user 2
\* an active viewer.
SettingsInit ==
    /\ UsersInit
    /\ userTable[1].is_superuser /\ userTable[1].roles = {}
    /\ ~userTable[2].is_superuser /\ userTable[2].roles = {3}
    /\ audit_log_enabled = Unset
    /\ SetIdle

SettingsNext ==
    \E t \in SettingsTasks : create_guild_settings(t) \/ CreateCommits(t)

----------------------------------------------------------------------------
(* api/schemas/commands.py, api/routes/commands.py: custom commands *)

MaxCommandId == 2
CommandIds == 1..MaxCommandId

AsciiLower ==
    {"a", "b", "c", "d", "e", "f", "g", "h", "i", "j", "k", "l", "m"} \cup
    {"n", "o", "p", "q", "r", "s", "t", "u", "v", "w", "x", "y", "z"}
AsciiUpper ==
    {"A", "B", "C", "D", "E", "F", "G", "H", "I", "J", "K", "L", "M"} \cup
    {"N", "O", "P", "Q", "R", "S", "T", "U", "V", "W", "X", "Y", "Z"}
AsciiDigits == {"0", "1", "2", "3", "4", "5", "6", "7", "8", "9"}

\* str.isalnum(): at least one character, and every character a letter or a
\* digit of any script ("é" stands for the letters outside ASCII).
isalnum(s) ==
    /\ s # <<>>
    /\ \A i \in DOMAIN s :
        s[i] \in AsciiLower \cup AsciiUpper \cup AsciiDigits \cup {"é"}

\* str.replace(old, "") for a one-character old.
str_remove(s, old) == SelectSeq(s, LAMBDA c : c # old)

\* Field(min_length=1, max_length=32), checked on the value as sent.
name_length_ok(v) == Len(v) >= 1 /\ Len(v) <= 32

\* CustomCommandCreate.name_valid: the normalised name, or <<>> for the
\* ValueError (no valid name is empty).
create_name_valid(raw) ==
    LET v == str_strip(str_lower(raw))
    IN IF ~isalnum(str_remove(str_remove(v, "-"), "_")) THEN <<>>
       ELSE IF startswith(v, <<"-">>) \/ startswith(v, <<"_">>) THEN <<>>
       ELSE v

\* CustomCommandUpdate.name_valid
update_name_valid(raw) ==
    LET v == str_strip(str_lower(raw))
    IN IF ~isalnum(str_remove(str_remove(v, "-"), "_")) THEN <<>>
       ELSE v

\* The names requests carry.
NameInputs ==
    {<<"p", "i", "n", "g">>,
     <<"P", "i", "n", "g", " ">>,
     <<"-", "x">>,
     <<"a", " ", "b">>,
     <<"é">>,
     [i \in 1..33 |-> "a"]}

NoCommand == [exists |-> FALSE, deleted |-> FALSE, guild_id |-> "", name |-> <<>>]
DeletedCommand == [NoCommand EXCEPT !.deleted = TRUE]

\* select(CustomCommand).where(guild_id == ..., name == ...)
commands_named(rows, guild_id, name) ==
    {id \in CommandIds :
        rows[id].exists /\ rows[id].guild_id = guild_id /\ rows[id].name = name}

NoCommandRequest == [op |-> "none", status |-> 0]
Answer(op, status) == [op |-> op, status |-> status]

\* The answer once the row is committed: the audit entry comes after the
\* commit, and building or adding it fails unless audit logging is on.
AfterCommit(op, status) ==
    Answer(op, IF audit_added THEN status ELSE 500)

\* POST /commands/{guild_id}, by a user verify_guild_access() admits (any
\* other caller is answered 401 or 403 and changes nothing).
create_custom_command ==
    /\ \E guild_id \in GuildIds, raw \in NameInputs :
        LET name == create_name_valid(raw)
            free == {id \in CommandIds : custom_commands[id] = NoCommand}
            id == CHOOSE i \in free : \A j \in free : i <= j
        IN IF ~name_length_ok(raw) \/ name = <<>>
           THEN /\ command_last' = Answer("create", 422)
                /\ UNCHANGED custom_commands
           ELSE IF commands_named(custom_commands, guild_id, name) # {}
           THEN /\ command_last' = Answer("create", 409)
                /\ UNCHANGED custom_commands
           ELSE /\ free # {}
                /\ custom_commands' =
                    [custom_commands EXCEPT ![id] =
                        [exists |-> TRUE, deleted |-> FALSE,
                         guild_id |-> guild_id, name |-> name]]
                /\ command_last' = AfterCommit("create", 201)
    /\ UNCHANGED authVars
    /\ CmdFrame

\* The name of the update: not sent, or one of the names.
NameUpdates == {Unset} \cup {{raw} : raw \in NameInputs}

\* PUT /commands/{guild_id}/{command_id}; the commit of a name another
\* command of the guild has breaks uq_custom_commands_guild_name.
update_custom_command ==
    /\ \E guild_id \in GuildIds, command_id \in CommandIds, sent \in NameUpdates :
        LET name == IF sent = Unset THEN <<>> ELSE update_name_valid(Some(sent))
            cmd == custom_commands[command_id]
        IN IF sent # Unset /\ (~name_length_ok(Some(sent)) \/ name = <<>>)
           THEN /\ command_last' = Answer("update", 422)
                /\ UNCHANGED custom_commands
           ELSE IF ~(cmd.exists /\ cmd.guild_id = guild_id)
           THEN /\ command_last' = Answer("update", 404)
                /\ UNCHANGED custom_commands
           ELSE IF sent = Unset
           THEN /\ command_last' = AfterCommit("update", 200)
                /\ UNCHANGED custom_commands
           ELSE IF commands_named(custom_commands, guild_id, name) \ {command_id} # {}
           THEN /\ command_last' = Answer("update", 500)
                /\ UNCHANGED custom_commands
           ELSE /\ custom_commands' =
                    [custom_commands EXCEPT ![command_id].name = name]
                /\ command_last' = AfterCommit("update", 200)
    /\ UNCHANGED authVars
    /\ CmdFrame

\* DELETE /commands/{guild_id}/{command_id}
delete_custom_command ==
    /\ \E guild_id \in GuildIds, command_id \in CommandIds :
        LET cmd == custom_commands[command_id]
        IN IF ~(cmd.exists /\ cmd.guild_id = guild_id)
           THEN /\ command_last' = Answer("delete", 404)
                /\ UNCHANGED custom_commands
           ELSE /\ custom_commands' =
                    [custom_commands EXCEPT ![command_id] = DeletedCommand]
                /\ command_last' = AfterCommit("delete", 200)
    /\ UNCHANGED authVars
    /\ CmdFrame

CmdIdle ==
    /\ custom_commands = [id \in CommandIds |-> NoCommand]
    /\ command_last = NoCommandRequest

CommandsInit ==
    /\ UsersInit
    /\ userTable[1].is_active /\ userTable[1].is_superuser
    /\ userTable[1].roles = {}
    /\ ~userTable[2].is_superuser /\ userTable[2].roles = {3}
    /\ CmdIdle

CommandsNext ==
    create_custom_command \/ update_custom_command \/ delete_custom_command

\* The CustomCommand name invariant.
name_invariant(rows, id) ==
    /\ Len(rows[id].name) >= 1 /\ Len(rows[id].name) <= 32
    /\ \A i \in DOMAIN rows[id].name :
        rows[id].name[i] \in AsciiLower \cup AsciiDigits \cup {"-", "_"}
    /\ rows[id].name[1] \notin {"-", "_"}
    /\ commands_named(rows, rows[id].guild_id, rows[id].name) = {id}

----------------------------------------------------------------------------
(* api/routes/commands.py: the built-in command toggles *)

MaxToggles == 3
ToggleTasks == {1, 2}

\* The names of BUILTIN_COMMANDS.
BUILTIN_COMMANDS ==
    {"ban", "unban", "kick", "mute", "unmute", "warn", "clear", "slowmode",
     "mc status", "mc players", "mc command", "settings", "prefix", "reload"}

\* The {command_name:path} of the requests: two of the catalogue, one not.
ToggleNames == {"ban", "mc status", "banish"}

\* "known = any(c["name"] == command_name ...)", with every name known.
toggle_known_any(command_name) == TRUE

\* "known = any(c["name"] == command_name for c in BUILTIN_COMMANDS)"
toggle_known(command_name) == command_name \in BUILTIN_COMMANDS

\* The positions of the rows of a pair.
config_rows(rows, guild_id, command_name) ==
    {i \in DOMAIN rows :
        rows[i].guild_id = guild_id /\ rows[i].command_name = command_name}

\* list_builtin_commands(): configs = {c.command_name: c.enabled for c in
\* the guild's rows} (a later row replaces an earlier one), and each command
\* is reported with configs.get(name, True).
list_builtin_commands(rows, guild_id) ==
    [name \in BUILTIN_COMMANDS |->
        LET found == config_rows(rows, guild_id, name)
        IN IF found = {} THEN TRUE
           ELSE rows[CHOOSE i \in found : \A j \in found : j <= i].enabled]

\* A request: pc is where its handler stands (selected: between the SELECT
\* and the commit); config: the position of the row the SELECT found, or 0.
NoToggle ==
    [pc |-> "idle", guild_id |-> "", command_name |-> "", enabled |-> FALSE,
     config |-> 0, status |-> 0]

\* toggle_builtin_command() up to its commit, for a user
\* verify_guild_access() admits (any other caller is answered 401 or 403 and
\* changes nothing).
toggle_builtin_command(t) ==
    /\ toggle_calls[t].pc # "selected"
    /\ toggle_started < MaxToggles
    /\ toggle_started' = toggle_started + 1
    /\ \E guild_id \in GuildIds, command_name \in ToggleNames, enabled \in BOOLEAN :
        LET call == [NoToggle EXCEPT !.guild_id = guild_id,
                                     !.command_name = command_name,
                                     !.enabled = enabled]
            found == config_rows(command_configs, guild_id, command_name)
        IN toggle_calls' = [toggle_calls EXCEPT ![t] =
            IF ~toggle_known(command_name)
            THEN [call EXCEPT !.pc = "done", !.status = 404]
            ELSE IF Cardinality(found) > 1
            THEN [call EXCEPT !.pc = "done", !.status = 500]
            ELSE [call EXCEPT !.pc = "selected",
                              !.config = IF found = {} THEN 0
                                         ELSE CHOOSE i \in found : TRUE]]
    /\ UNCHANGED <<command_configs, latest_put>>
    /\ BltFrame

\* "if config: config.enabled = ... else: db.add(CommandConfig(...))", then
\* the commit; a second row for the pair breaks uq_command_configs_guild_cmd.
ToggleCommits(t) ==
    /\ toggle_calls[t].pc = "selected"
    /\ LET call == toggle_calls[t]
           pair == <<call.guild_id, call.command_name>>
       IN IF call.config # 0
          THEN /\ command_configs' =
                    [command_configs EXCEPT ![call.config].enabled = call.enabled]
               /\ toggle_calls' = [toggle_calls EXCEPT ![t].pc = "done",
                                                       ![t].status = 200]
               /\ latest_put' = [latest_put EXCEPT ![pair] = {call.enabled}]
          ELSE IF config_rows(command_configs, call.guild_id, call.command_name) # {}
          THEN /\ toggle_calls' = [toggle_calls EXCEPT ![t].pc = "done",
                                                       ![t].status = 500]
               /\ UNCHANGED <<command_configs, latest_put>>
          ELSE /\ command_configs' =
                    Append(command_configs,
                           [guild_id |-> call.guild_id,
                            command_name |-> call.command_name,
                            enabled |-> call.enabled])
               /\ toggle_calls' = [toggle_calls EXCEPT ![t].pc = "done",
                                                       ![t].status = 200]
               /\ latest_put' = [latest_put EXCEPT ![pair] = {call.enabled}]
    /\ UNCHANGED toggle_started
    /\ BltFrame

BltIdle ==
    /\ command_configs = <<>>
    /\ toggle_calls = [t \in ToggleTasks |-> NoToggle]
    /\ toggle_started = 0
    /\ latest_put = [pair \in GuildIds \X (BUILTIN_COMMANDS \cup ToggleNames) |-> Unset]

BuiltinInit ==
    /\ UsersInit
    /\ userTable[1].is_superuser /\ userTable[1].roles = {}
    /\ ~userTable[2].is_superuser /\ userTable[2].roles = {3}
    /\ audit_log_enabled = Unset
    /\ BltIdle

BuiltinNext ==
    \E t \in ToggleTasks : toggle_builtin_command(t) \/ ToggleCommits(t)

----------------------------------------------------------------------------
(* api/websocket/manager.py: broadcasts running side by side *)

\* Each block under "async with self._lock" awaits nothing, so the lock is
\* free whenever a task asks for it: connect()'s registration, disconnect()
\* and broadcast()'s copy each run in one piece.  A task gives way only at
\* accept(), receive_json() and send_json().

\* The broadcast() calls, each made once.
CastIds == {1, 2}

\* A broadcast() call (pc: idle, sending, returned, raised).  owner: the status handler that rebroadcasts (0: a
\* caller outside the handlers); snapshot: the copy made under the lock;
\* connections: the part of the copy still to be visited; disconnected: the
\* local list of that name.
IdleCast ==
    [pc |-> "idle", owner |-> 0, channel |-> "none",
     snapshot |-> <<>>, connections |-> <<>>, disconnected |-> <<>>]

\* "sent" of broadcast(): the sockets of the copy the message went to.
RECURSIVE Elements(_)
Elements(list) == IF list = <<>> THEN {} ELSE {Head(list)} \cup Elements(Tail(list))

sent_to(cast) ==
    Elements(cast.snapshot) \ (Elements(cast.connections) \cup Elements(cast.disconnected))

\* A socket the endpoint has authenticated; manager.connect() is awaiting
\* accept().
Accepted(endpoint) ==
    [NoSocket EXCEPT !.endpoint = endpoint,
                     !.query = [token |-> Unset, api_key |-> {bot_api_key}],
                     !.pc = "accepting", !.app_state = "CONNECTED",
                     !.client_open = TRUE]

\* The call the next broadcast uses: the lowest one that is idle.
free_cast(c) == casts[c].pc = "idle" /\ \A d \in CastIds : d < c => casts[d].pc # "idle"

\* broadcast() up to its first send.
cast_started(owner, channel) ==
    [pc |-> "sending", owner |-> owner, channel |-> channel,
     snapshot |-> IF channel \in DOMAIN wsConnections
                  THEN wsConnections[channel] ELSE <<>>,
     connections |-> IF channel \in DOMAIN wsConnections
                     THEN wsConnections[channel] ELSE <<>>,
     disconnected |-> <<>>]

\* broadcast_log(), broadcast_status() or broadcast_bot_event() called from
\* outside the handlers.
MgrBroadcast ==
    \E c \in CastIds, channel \in Channels :
        /\ free_cast(c)
        /\ casts' = [casts EXCEPT ![c] = cast_started(0, channel)]
        /\ UNCHANGED wsVars
        /\ MgrFrame

\* status_websocket(): a status_update arrives and is rebroadcast.
MgrStatusUpdate ==
    \E s \in WsIds, c \in CastIds :
        /\ wsSock[s].pc = "receiving" /\ wsSock[s].client_open
        /\ wsSock[s].endpoint = "status"
        /\ free_cast(c)
        /\ casts' = [casts EXCEPT ![c] = cast_started(s, "status")]
        /\ wsSock' = [wsSock EXCEPT ![s].pc = "rebroadcast"]
        /\ UNCHANGED <<wsConnections, wsCast, wsEvents>>
        /\ MgrFrame

\* The peer does not take the frame a broadcast is sending it: that
\* send_json() waits until the peer goes away.  (A peer that reads again
\* leaves the manager where it would be had the peer never stopped.)
PeerStalls ==
    \E s \in WsIds, c \in CastIds :
        /\ casts[c].pc = "sending" /\ casts[c].connections # <<>>
        /\ Head(casts[c].connections) = s
        /\ CanSend(wsSock[s]) /\ ~wsSock[s].slow
        /\ wsSock' = [wsSock EXCEPT ![s].slow = TRUE]
        /\ UNCHANGED <<wsConnections, wsCast, wsEvents, casts>>
        /\ MgrFrame

\* The send_json() of a broadcast to this socket is held up.
send_blocks(sock) == CanSend(sock) /\ sock.slow

\* broadcast(): the visit of the next socket of the copy, once its send
\* returns or raises.
CastSend(c) ==
    /\ casts[c].pc = "sending" /\ casts[c].connections # <<>>
    /\ LET s == Head(casts[c].connections)
       IN /\ ~send_blocks(wsSock[s])
          /\ IF CanSend(wsSock[s])
             THEN /\ wsSock' = [wsSock EXCEPT ![s].frames = Append(@, casts[c].channel)]
                  /\ casts' = [casts EXCEPT ![c].connections = Tail(@)]
             ELSE /\ casts' = [casts EXCEPT ![c].connections = Tail(@),
                                            ![c].disconnected = Append(@, s)]
                  /\ UNCHANGED wsSock
    /\ UNCHANGED <<wsConnections, wsCast, wsEvents>>
    /\ MgrFrame

\* broadcast(): "Clean up disconnected" and the return; a rebroadcasting
\* handler is back in its receive loop.
CastDone(c) ==
    /\ casts[c].pc = "sending" /\ casts[c].connections = <<>>
    /\ wsConnections' = DisconnectedAll(wsConnections, casts[c].disconnected,
                                        casts[c].channel)
    /\ casts' = [casts EXCEPT ![c] = [IdleCast EXCEPT !.pc = "returned"]]
    /\ wsSock' = IF casts[c].owner = 0 THEN wsSock
                 ELSE [wsSock EXCEPT ![casts[c].owner].pc = "receiving"]
    /\ UNCHANGED <<wsCast, wsEvents>>
    /\ MgrFrame

\* The handlers' "finally" with the clause left out.
unregistered_never(connections, websocket, channel) == connections

\* The handlers' "finally: await manager.disconnect(websocket, channel=...)".
unregistered(connections, websocket, channel) ==
    Disconnected(connections, websocket, channel)

\* receive_json() raises on a frame that is not JSON, or data.get raises on
\* one that is no object: logs_websocket() passes over the exception,
\* status_websocket() lets it through; both run their "finally" first.
WsLoopFails ==
    \E s \in WsIds :
        /\ wsSock[s].pc = "receiving" /\ wsSock[s].client_open
        /\ wsConnections' = unregistered(wsConnections, s, wsSock[s].endpoint)
        /\ wsSock' = [wsSock EXCEPT ![s].pc = "done",
                                    ![s].app_state = "DISCONNECTED",
                                    ![s].client_open = FALSE,
                                    ![s].slow = FALSE,
                                    ![s].close_code = 1011]
        /\ UNCHANGED <<wsCast, wsEvents, casts>>
        /\ MgrFrame

\* An exception comes out of broadcast_status() while the handler waits in
\* one of its sends (broadcast() catches Exception around each send, so this
\* is one that is none, such as the cancellation of the handler's task): the
\* broadcast is abandoned, its cleanup not run, and the handler's "finally"
\* unregisters the handler's own socket.
WsRebroadcastRaises ==
    \E s \in WsIds, c \in CastIds :
        /\ wsSock[s].pc = "rebroadcast"
        /\ casts[c].pc = "sending" /\ casts[c].owner = s
        /\ casts[c].connections # <<>>
        /\ casts' = [casts EXCEPT ![c] = [IdleCast EXCEPT !.pc = "raised"]]
        /\ wsConnections' = unregistered(wsConnections, s, wsSock[s].endpoint)
        /\ wsSock' = [wsSock EXCEPT ![s].pc = "done",
                                    ![s].app_state = "DISCONNECTED",
                                    ![s].client_open = FALSE,
                                    ![s].slow = FALSE,
                                    ![s].close_code = 1011]
        /\ UNCHANGED <<wsCast, wsEvents>>
        /\ MgrFrame

MgrIdle == casts = [c \in CastIds |-> IdleCast]

\* Two sockets the endpoints have let in, each on either channel.
ManagerInit ==
    /\ wsSock \in [WsIds -> {Accepted(endpoint) : endpoint \in Channels}]
    /\ wsConnections = <<>>
    /\ wsCast = NoCast
    /\ wsEvents = 0
    /\ MgrIdle

ManagerNext ==
    \/ WsRegister \/ WsSubscribed \/ WsClientClose \/ WsLoopEnds
    \/ WsLoopFails \/ WsRebroadcastRaises
    \/ PeerStalls
    \/ MgrBroadcast \/ MgrStatusUpdate
    \/ \E c \in CastIds : CastSend(c) \/ CastDone(c)

(* api/routes/auth.py: the MFA endpoints, requests side by side *)

\* Each request has its own session: get_current_active_user loads the
\* user's row, the handler decides on that copy and changes it, and
\* "await db.commit()" writes the columns the handler changed (the ORM's
\* UPDATE names no other column).  Other requests run between the load and
\* the commit.

MaxMfaCalls == 3
MfaTasks == {1, 2}

\* pyotp.random_base32(), twice.
MfaSecrets == {1, 2}

\* A request: where it stands (idle, commit, done), the endpoint, the row as
\* loaded, the columns the handler set, the secret its code was verified
\* against, and the response.
NoMfaCall ==
    [pc |-> "idle", op |-> "none", mfa_enabled |-> {}, mfa_secret |-> {},
     checked |-> 0, status |-> 0]

\* The handler raised: HTTPException, or the exception of the audit entry
\* that could not be added; get_db rolls back.
MfaAnswer(op, status) == [NoMfaCall EXCEPT !.pc = "done", !.op = op, !.status = status]

\* enable_mfa() up to its commit.
mfa_enable_call(user, secret) ==
    IF user.mfa_enabled THEN MfaAnswer("enable", 400)
    ELSE [NoMfaCall EXCEPT !.pc = "commit", !.op = "enable",
                           !.mfa_secret = {secret}]

\* verify_mfa() up to its commit.
mfa_verify_call(user, code, now) ==
    IF user.mfa_secret = 0 THEN MfaAnswer("verify", 400)
    ELSE IF ~TotpVerify(user.mfa_secret, code, now) THEN MfaAnswer("verify", 400)
    ELSE IF ~audit_added THEN MfaAnswer("verify", 500)
    ELSE [NoMfaCall EXCEPT !.pc = "commit", !.op = "verify",
                           !.mfa_enabled = IF user.mfa_enabled THEN {} ELSE {TRUE},
                           !.checked = user.mfa_secret]

\* disable_mfa() up to its commit.
mfa_disable_call(user, code, now) ==
    IF ~user.mfa_enabled THEN MfaAnswer("disable", 400)
    ELSE IF ~TotpVerify(user.mfa_secret, code, now) THEN MfaAnswer("disable", 400)
    ELSE IF ~audit_added THEN MfaAnswer("disable", 500)
    ELSE [NoMfaCall EXCEPT !.pc = "commit", !.op = "disable",
                           !.mfa_enabled = {FALSE}, !.mfa_secret = {0}]

\* User 1, active and holding a valid access token, sends a request to one
\* of the three endpoints.
MfaRequest ==
    \E t \in MfaTasks, op \in {"enable", "verify", "disable"},
       secret \in MfaSecrets, code \in Codes :
        /\ mfa_calls[t].pc # "commit"
        /\ \A r \in MfaTasks : r < t => mfa_calls[r].pc = "commit"
        /\ mfa_started < MaxMfaCalls
        /\ op = "enable" => code = 0
        /\ op # "enable" => secret = 1
        /\ mfa_started' = mfa_started + 1
        /\ mfa_calls' = [mfa_calls EXCEPT ![t] =
                CASE op = "enable" -> mfa_enable_call(userTable[1], secret)
                  [] op = "verify" -> mfa_verify_call(userTable[1], code, utcnow)
                  [] OTHER -> mfa_disable_call(userTable[1], code, utcnow)]
        /\ UNCHANGED <<authVars, mfa_confirmed>>
        /\ MfaFrame

\* The UPDATE of one request, on the row as it is now.
mfa_updated(user, call) ==
    [user EXCEPT
        !.mfa_enabled = IF call.mfa_enabled = {} THEN @ ELSE Some(call.mfa_enabled),
        !.mfa_secret = IF call.mfa_secret = {} THEN @ ELSE Some(call.mfa_secret)]

\* await db.commit(), and the response.
MfaCommits ==
    \E t \in MfaTasks :
        /\ mfa_calls[t].pc = "commit"
        /\ userTable' = [userTable EXCEPT ![1] = mfa_updated(@, mfa_calls[t])]
        /\ mfa_confirmed' =
            CASE mfa_calls[t].op = "verify" -> mfa_calls[t].checked
              [] mfa_calls[t].op = "disable" -> 0
              [] OTHER -> mfa_confirmed
        /\ mfa_calls' = [mfa_calls EXCEPT ![t] = MfaAnswer(mfa_calls[t].op, 200)]
        /\ UNCHANGED <<utcnow, ticks, last, audit_log_enabled, mfa_started>>
        /\ MfaFrame

MfaIdle ==
    /\ mfa_calls = [t \in MfaTasks |-> NoMfaCall]
    /\ mfa_started = 0
    /\ mfa_confirmed = 0

\* User 1 is registered and active, without MFA or with MFA set up and
\* confirmed earlier.
MfaInit ==
    /\ \E m \in BOOLEAN :
        /\ userTable = [i \in UserIds |->
                IF i = 1
                THEN [NewRow(1, "Password1") EXCEPT
                        !.mfa_enabled = m, !.mfa_secret = IF m THEN 1 ELSE 0]
                ELSE NoRow]
        /\ mfa_confirmed = IF m THEN 1 ELSE 0
    /\ utcnow = StartTime /\ ticks = 0 /\ last = NoRequest
    /\ audit_log_enabled \in AuditSettings
    /\ mfa_calls = [t \in MfaTasks |-> NoMfaCall]
    /\ mfa_started = 0

MfaNext == MfaRequest \/ MfaCommits

(* api/routes/settings.py: PUT /settings/{guild_id}, requests side by side *)

\* Each request has its own session: the SELECT loads the guild's row, the
\* loop compares and changes that copy, and "await db.commit()" writes the
\* columns the loop changed and the audit entry.  Other requests run between
\* the SELECT and the commit.

MaxUpdates == 2
UpdateTasks == {1, 2}

\* BotSettingsUpdate, two of its fields, and the values sent for them.
SettingsFields == {"prefix", "language"}
FieldValues(field) == IF field = "prefix" THEN {"!", "?"} ELSE {"en", "de"}

\* JSON null, which BotSettingsUpdate accepts for every field.
JsonNull == "null"

\* settings_update: per field, not sent (Unset), null, or a value.
SettingsUpdates ==
    {update \in [SettingsFields -> {Unset, {JsonNull}, {"!"}, {"?"}, {"en"}, {"de"}}] :
        \A field \in SettingsFields :
            update[field] \in {Unset, {JsonNull}} \/ Some(update[field]) \in FieldValues(field)}

\* A request: where it stands (idle, commit, done), the guild, the body, the
\* changes dict of the handler, and the response.
NoUpdateCall ==
    [pc |-> "idle", guild_id |-> "", settings_update |-> [field \in SettingsFields |-> Unset],
     changes |-> [field \in SettingsFields |-> Unset], status |-> 0]

\* The loop over settings_update.model_dump(exclude_unset=True): per field,
\* Unset or the {"old": ..., "new": ...} entry of the changes dict.
settings_changes(settings, update_data) ==
    [field \in SettingsFields |->
        IF update_data[field] = Unset THEN Unset
        ELSE IF Some(update_data[field]) = JsonNull THEN Unset
        ELSE IF settings[field] = Some(update_data[field]) THEN Unset
        ELSE {[old |-> settings[field], new |-> Some(update_data[field])]}]

\* "if changes:"
changes_made(changes) == \E field \in SettingsFields : changes[field] # Unset

\* update_guild_settings() up to its commit; the caller is the bot with its
\* key, or sends no credentials at all.
update_guild_settings(t) ==
    /\ update_calls[t].pc # "commit"
    /\ \A r \in UpdateTasks : r < t => update_calls[r].pc = "commit"
    /\ update_started < MaxUpdates
    /\ update_started' = update_started + 1
    /\ \E api_key \in SettingsApiKeys, guild_id \in GuildIds,
          settings_update \in SettingsUpdates :
        LET auth == get_api_key_or_user(userTable, apiKeys, NoCredentials,
                                        api_key, utcnow)
            found == settings_rows(bot_settings, guild_id)
            call == [NoUpdateCall EXCEPT !.pc = "done", !.guild_id = guild_id,
                                         !.settings_update = settings_update]
            changes == settings_changes(found[1], settings_update)
        IN update_calls' = [update_calls EXCEPT ![t] =
            IF auth.raised # "none" THEN [call EXCEPT !.status = 500]
            ELSE IF settings_write_denied(auth)
            THEN [call EXCEPT !.status = 403]
            ELSE IF found = <<>> THEN [call EXCEPT !.status = 404]
            ELSE IF changes_made(changes) /\ ~audit_added
            THEN [call EXCEPT !.status = 500]
            ELSE [call EXCEPT !.pc = "commit", !.changes = changes]]
    /\ UNCHANGED <<bot_settings, settings_calls, settings_started, settings_audit>>
    /\ UpdFrame

\* The UPDATE of one request, on the row as it is now.
settings_updated(row, changes) ==
    [field \in DOMAIN row |->
        IF field \in SettingsFields /\ changes[field] # Unset
        THEN Some(changes[field]).new ELSE row[field]]

\* await db.commit(), and the response.
UpdateCommits(t) ==
    /\ update_calls[t].pc = "commit"
    /\ LET call == update_calls[t]
       IN /\ bot_settings' =
                [i \in DOMAIN bot_settings |->
                    IF bot_settings[i].guild_id = call.guild_id
                    THEN settings_updated(bot_settings[i], call.changes)
                    ELSE bot_settings[i]]
          /\ settings_audit' =
                IF changes_made(call.changes)
                THEN Append(settings_audit,
                            [resource_id |-> call.guild_id, changes |-> call.changes])
                ELSE settings_audit
          /\ update_calls' = [update_calls EXCEPT ![t].pc = "done", ![t].status = 200]
    /\ UNCHANGED <<settings_calls, settings_started, update_started>>
    /\ UpdFrame

UpdIdle ==
    /\ update_calls = [t \in UpdateTasks |-> NoUpdateCall]
    /\ update_started = 0
    /\ settings_audit = <<>>

\* Guild 111 has settings, guild 222 none; the users are those of
\* SettingsInit, and the settings object has audit_log_enabled or not.
UpdateInit ==
    /\ UsersInit
    /\ userTable[1].is_superuser /\ userTable[1].roles = {}
    /\ ~userTable[2].is_superuser /\ userTable[2].roles = {3}
    /\ audit_log_enabled \in AuditSettings
    /\ bot_settings = <<[guild_id |-> "111", prefix |-> "!", language |-> "en"]>>
    /\ settings_calls = [t \in SettingsTasks |-> NoSettingsCall]
    /\ settings_started = 0
    /\ UpdIdle

UpdateNext ==
    \E t \in UpdateTasks : update_guild_settings(t) \/ UpdateCommits(t)

(* bot/main.py, bot/cogs/admin.py: the prefix cache of one guild *)

\* discord.py runs every message's handler as a task of its own: the
\* _get_prefix() of one message and the setprefix of another are suspended
\* at their "await self.api..." side by side.  self.api is set in
\* setup_hook(), before any message is handled, so that "elif self.bot.db"
\* is never reached.
\*
\* APIConnector asks for /api/v1/bot/settings/{guild_id}, while
\* api/routes/__init__.py mounts the settings routes at /settings: the
\* repository's backend answers these requests with 404.
\* bot_settings_routed says whether the server at settings.api_url serves
\* the path all the same (by a rewrite in front of the backend, say).

PrefixTasks == {1, 2}
Prefixes == {"!", "?"}

\* settings.discord_prefix
discord_prefix == "!"

\* What setprefix is called with: a prefix, or a text of more than five
\* characters.
PrefixArguments == Prefixes \cup {"toolong"}
TooLong(prefix) == prefix = "toolong"

\* A call: where it stands (idle, requested, responded, done) and the
\* response of the backend (Unset: APIError; else the settings it sent).
NoPrefixTask == [pc |-> "idle", response |-> Unset, prefix |-> ""]

\* setprefix: the same, with the prefix it was called with, the prefix the
\* backend held before its PUT, and whether it reported success.
NoSetprefix ==
    [pc |-> "idle", prefix |-> "", response |-> Unset, before |-> "", persisted |-> FALSE]

\* _get_prefix() up to "await self.api.get_guild_settings(guild_id)".
_get_prefix(t) ==
    /\ prefix_tasks[t].pc \in {"idle", "done"}
    /\ prefix_tasks' = [prefix_tasks EXCEPT ![t] =
            IF _prefix_cache # Unset
            THEN [NoPrefixTask EXCEPT !.pc = "done", !.prefix = Some(_prefix_cache)]
            ELSE [NoPrefixTask EXCEPT !.pc = "requested"]]
    /\ UNCHANGED <<_prefix_cache, guild_prefix, bot_settings_routed, setprefix_call>>
    /\ PfxFrame

\* The backend handles the GET: 404 when the path is not served, an error of
\* its own, or the row as it is now.
BackendGets(t) ==
    /\ prefix_tasks[t].pc = "requested"
    /\ \E ok \in BOOLEAN :
        prefix_tasks' = [prefix_tasks EXCEPT ![t].pc = "responded", ![t].response =
            IF ok /\ bot_settings_routed THEN {guild_prefix} ELSE Unset]
    /\ UNCHANGED <<_prefix_cache, guild_prefix, bot_settings_routed, setprefix_call>>
    /\ PfxFrame

\* "self._prefix_cache[guild_id] = prefix", or the except branch.
cache_filled(cache, response) == IF response = Unset THEN cache ELSE response

\* _get_prefix() from the response on.
GetPrefixResumes(t) ==
    /\ prefix_tasks[t].pc = "responded"
    /\ LET response == prefix_tasks[t].response
       IN /\ _prefix_cache' = cache_filled(_prefix_cache, response)
          /\ prefix_tasks' = [prefix_tasks EXCEPT ![t].pc = "done", ![t].prefix =
                IF response = Unset THEN discord_prefix ELSE Some(response)]
    /\ UNCHANGED <<guild_prefix, bot_settings_routed, setprefix_call>>
    /\ PfxFrame

\* setprefix() up to "await self.bot.api.update_guild_settings(...)".
setprefix ==
    /\ setprefix_call.pc \in {"idle", "done"}
    /\ \E prefix \in PrefixArguments :
        setprefix_call' =
            IF TooLong(prefix) THEN [NoSetprefix EXCEPT !.pc = "done", !.prefix = prefix]
            ELSE [NoSetprefix EXCEPT !.pc = "requested", !.prefix = prefix]
    /\ UNCHANGED <<_prefix_cache, guild_prefix, bot_settings_routed, prefix_tasks>>
    /\ PfxFrame

\* The backend handles the PUT: 404 when the path is not served, an error of
\* its own, or the update.
BackendPuts ==
    /\ setprefix_call.pc = "requested"
    /\ \E ok \in BOOLEAN :
        IF ok /\ bot_settings_routed
        THEN /\ guild_prefix' = setprefix_call.prefix
             /\ setprefix_call' = [setprefix_call EXCEPT !.pc = "responded",
                    !.response = {setprefix_call.prefix}, !.before = guild_prefix]
        ELSE /\ setprefix_call' = [setprefix_call EXCEPT !.pc = "responded"]
             /\ UNCHANGED guild_prefix
    /\ UNCHANGED <<_prefix_cache, bot_settings_routed, prefix_tasks>>
    /\ PfxFrame

\* setprefix() from the response on: invalidate_prefix_cache() and the
\* message, or the except branch.
SetprefixResumes ==
    /\ setprefix_call.pc = "responded"
    /\ IF setprefix_call.response # Unset
       THEN /\ _prefix_cache' = Unset
            /\ setprefix_call' = [setprefix_call EXCEPT !.pc = "done", !.persisted = TRUE]
       ELSE /\ setprefix_call' = [setprefix_call EXCEPT !.pc = "done"]
            /\ UNCHANGED _prefix_cache
    /\ UNCHANGED <<guild_prefix, bot_settings_routed, prefix_tasks>>
    /\ PfxFrame

PfxIdle ==
    /\ _prefix_cache = Unset
    /\ guild_prefix = discord_prefix
    /\ bot_settings_routed = FALSE
    /\ prefix_tasks = [t \in PrefixTasks |-> NoPrefixTask]
    /\ setprefix_call = NoSetprefix

\* The bot has just started: nothing is cached.
PrefixInit ==
    /\ _prefix_cache = Unset
    /\ guild_prefix \in Prefixes
    /\ bot_settings_routed \in BOOLEAN
    /\ prefix_tasks = [t \in PrefixTasks |-> NoPrefixTask]
    /\ setprefix_call = NoSetprefix

PrefixNext ==
    \/ \E t \in PrefixTasks : _get_prefix(t) \/ BackendGets(t) \/ GetPrefixResumes(t)
    \/ setprefix \/ BackendPuts \/ SetprefixResumes

(* bot/cogs/custom_commands.py: the refresh of one guild's custom commands *)

\* on_ready() and the refresh_commands loop call _load_guild_commands() for
\* the guilds one after the other; nothing else touches the cog's two
\* dictionaries, and the handler changes them after its fetch without
\* awaiting in between, so that a refresh is one step.

CommandNames == {"ping", "rules"}

\* A command as the backend lists it: enabled or not, and its response.
CommandData == [enabled : BOOLEAN, response : {1, 2}]

\* A dict from command names to command data.
CommandDicts ==
    UNION {[names -> CommandData] : names \in SUBSET CommandNames}

EmptyDict == [name \in {} |-> 0]

\* APIConnector (bot/services/api_connector.py) defines get_guild_settings,
\* get_modules, log_event and others, but no get_custom_commands:
\* "self.bot.api.get_custom_commands" raises AttributeError inside the try.
get_custom_commands_defined == FALSE

\* "data = await self.bot.api.get_custom_commands(str(guild.id))": the
\* commands list ({it}), or Unset for the exception the try catches.
fetch_commands(commands, available) ==
    IF ~get_custom_commands_defined THEN Unset
    ELSE IF ~available THEN Unset
    ELSE {commands}

\* The loop that builds new_cache: the commands whose "enabled" is true.
new_cache_of(commands_list) ==
    [name \in {n \in DOMAIN commands_list : commands_list[n].enabled} |->
        commands_list[name]]

\* The two loops over removed and over new_cache.items(), on
\* self._registered_commands.
registered_after(registered, old_cache, new_cache) ==
    LET removed == DOMAIN old_cache \ DOMAIN new_cache
        changed == {name \in DOMAIN new_cache :
                        name \notin DOMAIN old_cache \/ old_cache[name] # new_cache[name]}
    IN [name \in (DOMAIN registered \ removed) \cup changed |->
            IF name \in changed THEN new_cache[name] ELSE registered[name]]

NoRefresh == [done |-> FALSE, available |-> FALSE, commands |-> EmptyDict]

\* _load_guild_commands(guild); self.bot.api is set (setup_hook).
_load_guild_commands ==
    \E available \in BOOLEAN :
        LET data == fetch_commands(backend_commands, available)
        IN /\ IF data = Unset
              THEN UNCHANGED <<_commands_cache, _registered_commands>>
              ELSE LET new_cache == new_cache_of(Some(data))
                   IN /\ _registered_commands' =
                            registered_after(_registered_commands, _commands_cache, new_cache)
                      /\ _commands_cache' = new_cache
           /\ last_refresh' = [done |-> TRUE, available |-> available,
                               commands |-> backend_commands]
           /\ UNCHANGED backend_commands
           /\ RfrFrame

\* The dashboard creates, changes, enables, disables or deletes a command.
BackendCommandEdited ==
    \E name \in CommandNames, data \in CommandData, deleted \in BOOLEAN :
        /\ backend_commands' =
            IF deleted
            THEN [n \in DOMAIN backend_commands \ {name} |-> backend_commands[n]]
            ELSE [n \in DOMAIN backend_commands \cup {name} |->
                    IF n = name THEN data ELSE backend_commands[n]]
        /\ backend_commands' # backend_commands
        /\ UNCHANGED <<_commands_cache, _registered_commands, last_refresh>>
        /\ RfrFrame

RfrIdle ==
    /\ backend_commands = EmptyDict
    /\ _commands_cache = EmptyDict
    /\ _registered_commands = EmptyDict
    /\ last_refresh = NoRefresh

\* The cog has just been constructed; the backend holds any commands.
RefreshInit ==
    /\ backend_commands \in CommandDicts
    /\ _commands_cache = EmptyDict
    /\ _registered_commands = EmptyDict
    /\ last_refresh = NoRefresh

RefreshNext == _load_guild_commands \/ BackendCommandEdited

(* bot/cogs/moderation.py: the member-targeting /mod subcommands *)

\* The handlers as they run once a command has been let through to them.
\* (interaction_check() asks self.bot.api.get_command_config(), a method
\* APIConnector does not define.)

\* guild.me is member 1; the others invoke the commands.
Members == {1, 2, 3}
me == 1
RolePositions == {1, 2, 3}

\* A member of the guild: still in it, timed out, warned.
NewMember == [present |-> TRUE, timed_out |-> FALSE, warned |-> FALSE]

NoModCommand ==
    [command |-> "none", user |-> 0, member |-> 0, applied |-> FALSE, message |-> ""]

\* What the handler answered and whether the action took effect.
ModOutcome(command, user, member, applied, message) ==
    [command |-> command, user |-> user, member |-> member,
     applied |-> applied, message |-> message]

\* Discord refuses the bot an action on the guild's owner and on a member
\* whose top role is not below the bot's own: discord.Forbidden.
Forbidden(member, permitted) ==
    \/ ~permitted
    \/ member = guild_owner
    \/ top_role[member] >= top_role[me]

\* The four checks of ban() and kick(): the message of the first that hits.
full_checks(user, member) ==
    IF member = user THEN "yourself"
    ELSE IF member = guild_owner THEN "owner"
    ELSE IF top_role[member] >= top_role[user] THEN "higher role"
    ELSE IF top_role[member] >= top_role[me] THEN "higher role than me"
    ELSE "passed"

\* The three checks of mute().
mute_checks(user, member) ==
    IF member = user THEN "yourself"
    ELSE IF member = guild_owner THEN "owner"
    ELSE IF top_role[member] >= top_role[user] THEN "higher role"
    ELSE "passed"

\* The two checks of warn().
warn_checks(user, member) ==
    IF member = user THEN "yourself"
    ELSE IF member = me THEN "bots"
    ELSE "passed"

\* A command as it arrives: invoked by a member other than the bot, on a
\* member of the guild; permitted: the bot's role has the permission.
Invocations ==
    {inv \in [user : Members \ {me}, member : Members, permitted : BOOLEAN] :
        guild_members[inv.user].present /\ guild_members[inv.member].present}

\* The body of a handler after its checks: the action, or the except branch.
RunAction(command, inv, checked, effect) ==
    IF checked # "passed"
    THEN /\ mod_last' = ModOutcome(command, inv.user, inv.member, FALSE, checked)
         /\ UNCHANGED guild_members
    ELSE IF Forbidden(inv.member, inv.permitted)
    THEN /\ mod_last' = ModOutcome(command, inv.user, inv.member, FALSE, "no permission")
         /\ UNCHANGED guild_members
    ELSE /\ mod_last' = ModOutcome(command, inv.user, inv.member, TRUE, "done")
         /\ guild_members' = [guild_members EXCEPT ![inv.member] = effect]

ban ==
    \E inv \in Invocations :
        /\ RunAction("ban", inv, full_checks(inv.user, inv.member),
                     [guild_members[inv.member] EXCEPT !.present = FALSE])
        /\ UNCHANGED <<guild_owner, top_role>>
        /\ MdnFrame

kick ==
    \E inv \in Invocations :
        /\ RunAction("kick", inv, full_checks(inv.user, inv.member),
                     [guild_members[inv.member] EXCEPT !.present = FALSE])
        /\ UNCHANGED <<guild_owner, top_role>>
        /\ MdnFrame

mute ==
    \E inv \in Invocations :
        /\ RunAction("mute", inv, mute_checks(inv.user, inv.member),
                     [guild_members[inv.member] EXCEPT !.timed_out = TRUE])
        /\ UNCHANGED <<guild_owner, top_role>>
        /\ MdnFrame

\* unmute() has no check before "await member.timeout(None, ...)".
unmute ==
    \E inv \in Invocations :
        /\ RunAction("unmute", inv, "passed",
                     [guild_members[inv.member] EXCEPT !.timed_out = FALSE])
        /\ UNCHANGED <<guild_owner, top_role>>
        /\ MdnFrame

\* warn() sends the direct message, the embed and the audit entry: nothing
\* that Discord refuses on account of roles.
warn ==
    \E inv \in Invocations :
        LET checked == warn_checks(inv.user, inv.member)
        IN /\ IF checked # "passed"
              THEN /\ mod_last' = ModOutcome("warn", inv.user, inv.member, FALSE, checked)
                   /\ UNCHANGED guild_members
              ELSE /\ mod_last' = ModOutcome("warn", inv.user, inv.member, TRUE, "done")
                   /\ guild_members' = [guild_members EXCEPT ![inv.member].warned = TRUE]
           /\ UNCHANGED <<guild_owner, top_role>>
           /\ MdnFrame

MdnIdle ==
    /\ guild_owner = 2
    /\ top_role = [member \in Members |-> 1]
    /\ guild_members = [member \in Members |-> NewMember]
    /\ mod_last = NoModCommand

\* A guild owned by member 2 or 3, with any top roles.
ModerationInit ==
    /\ guild_owner \in Members \ {me}
    /\ top_role \in [Members -> RolePositions]
    /\ guild_members = [member \in Members |-> NewMember]
    /\ mod_last = NoModCommand

ModerationNext == ban \/ kick \/ mute \/ unmute \/ warn

(* Specifications: one per subsystem; the other subsystems stay idle. *)

vars == <<jwtVars, authVars, wsVars, modVars, keyVars, guildVars, mcVars, retVars, setVars, cmdVars, bltVars, lifeVars, mgrVars, mfaVars, updVars, pfxVars, rfrVars, mdnVars>>

AuthIdle ==
    /\ userTable = [i \in UserIds |-> NoRow]
    /\ utcnow = StartTime /\ ticks = 0 /\ last = NoRequest
    /\ audit_log_enabled = Unset

StartJwt == JwtInit /\ AuthIdle /\ WsInit /\ ModulesInit /\ KeysIdle /\ GuildIdle /\ McIdle /\ RetIdle /\ SetIdle /\ CmdIdle /\ BltIdle /\ LifeIdle /\ MgrIdle /\ MfaIdle /\ UpdIdle /\ PfxIdle /\ RfrIdle /\ MdnIdle
SpecJwt == StartJwt /\ [][JwtNext]_vars

StartAuth == AuthInit /\ JwtInit /\ WsInit /\ ModulesInit /\ KeysIdle /\ GuildIdle /\ McIdle /\ RetIdle /\ SetIdle /\ CmdIdle /\ BltIdle /\ LifeIdle /\ MgrIdle /\ MfaIdle /\ UpdIdle /\ PfxIdle /\ RfrIdle /\ MdnIdle
SpecAuth == StartAuth /\ [][AuthNext]_vars

StartUsers == UsersInit /\ JwtInit /\ WsInit /\ ModulesInit /\ KeysIdle /\ GuildIdle /\ McIdle /\ RetIdle /\ SetIdle /\ CmdIdle /\ BltIdle /\ LifeIdle /\ MgrIdle /\ MfaIdle /\ UpdIdle /\ PfxIdle /\ RfrIdle /\ MdnIdle
SpecUsers == StartUsers /\ [][UsersNext]_vars

StartWs == WsInit /\ JwtInit /\ AuthIdle /\ ModulesInit /\ KeysIdle /\ GuildIdle /\ McIdle /\ RetIdle /\ SetIdle /\ CmdIdle /\ BltIdle /\ LifeIdle /\ MgrIdle /\ MfaIdle /\ UpdIdle /\ PfxIdle /\ RfrIdle /\ MdnIdle
SpecWs == StartWs /\ [][WsNext]_vars

StartModules == TogglesInit /\ JwtInit /\ WsInit /\ KeysIdle /\ GuildIdle /\ McIdle /\ RetIdle /\ SetIdle /\ CmdIdle /\ BltIdle /\ LifeIdle /\ MgrIdle /\ MfaIdle /\ UpdIdle /\ PfxIdle /\ RfrIdle /\ MdnIdle
SpecModules == StartModules /\ [][ModulesNext]_vars

StartKeys == KeysInit /\ JwtInit /\ WsInit /\ ModulesInit /\ GuildIdle /\ McIdle /\ RetIdle /\ SetIdle /\ CmdIdle /\ BltIdle /\ LifeIdle /\ MgrIdle /\ MfaIdle /\ UpdIdle /\ PfxIdle /\ RfrIdle /\ MdnIdle
SpecKeys == StartKeys /\ [][KeysNext]_vars

StartGuild ==
    GuildInit /\ JwtInit /\ AuthIdle /\ WsInit /\ ModulesInit /\ KeysIdle /\ McIdle /\ RetIdle /\ SetIdle /\ CmdIdle /\ BltIdle /\ LifeIdle /\ MgrIdle /\ MfaIdle /\ UpdIdle /\ PfxIdle /\ RfrIdle /\ MdnIdle
SpecGuild == StartGuild /\ [][GuildNext]_vars

StartMc == McInit /\ JwtInit /\ WsInit /\ ModulesInit /\ KeysIdle /\ GuildIdle /\ RetIdle /\ SetIdle /\ CmdIdle /\ BltIdle /\ LifeIdle /\ MgrIdle /\ MfaIdle /\ UpdIdle /\ PfxIdle /\ RfrIdle /\ MdnIdle
SpecMc == StartMc /\ [][McNext]_vars

StartAccount ==
    AccountInit /\ JwtInit /\ WsInit /\ ModulesInit /\ KeysIdle /\ GuildIdle /\ McIdle /\ RetIdle /\ SetIdle /\ CmdIdle /\ BltIdle /\ LifeIdle /\ MgrIdle /\ MfaIdle /\ UpdIdle /\ PfxIdle /\ RfrIdle /\ MdnIdle
SpecAccount == StartAccount /\ [][AccountNext]_vars

StartSettings ==
    SettingsInit /\ JwtInit /\ WsInit /\ ModulesInit /\ KeysIdle /\ GuildIdle /\ McIdle /\ RetIdle /\ CmdIdle /\ BltIdle /\ LifeIdle /\ MgrIdle /\ MfaIdle /\ UpdIdle /\ PfxIdle /\ RfrIdle /\ MdnIdle
SpecSettings == StartSettings /\ [][SettingsNext]_vars

StartCommands ==
    CommandsInit /\ JwtInit /\ WsInit /\ ModulesInit /\ KeysIdle /\ GuildIdle /\ McIdle /\ RetIdle /\ SetIdle /\ BltIdle /\ LifeIdle /\ MgrIdle /\ MfaIdle /\ UpdIdle /\ PfxIdle /\ RfrIdle /\ MdnIdle
SpecCommands == StartCommands /\ [][CommandsNext]_vars

StartBuiltin ==
    BuiltinInit /\ JwtInit /\ WsInit /\ ModulesInit /\ KeysIdle /\ GuildIdle /\ McIdle /\ RetIdle /\ SetIdle /\ CmdIdle /\ LifeIdle /\ MgrIdle /\ MfaIdle /\ UpdIdle /\ PfxIdle /\ RfrIdle /\ MdnIdle
SpecBuiltin == StartBuiltin /\ [][BuiltinNext]_vars

LifespanInit == RetentionInit

LifespanNext ==
    \/ cleanup_old_audit_logs \/ CleanupTransaction \/ SleepEnds
    \/ CancelDelivered
    \/ lifespan_cancels \/ lifespan_awaits \/ close_db

\* The event loop runs every task that can run: the cancelled task gets its
\* CancelledError, and the lifespan its await and its close_db().
LifespanFairness ==
    /\ WF_vars(CancelDelivered)
    /\ WF_vars(lifespan_awaits)
    /\ WF_vars(close_db)

StartLifespan ==
    LifespanInit /\ JwtInit /\ WsInit /\ ModulesInit /\ KeysIdle /\ GuildIdle /\ McIdle /\ SetIdle /\ CmdIdle /\ BltIdle /\ LifeIdle /\ MgrIdle /\ MfaIdle /\ UpdIdle /\ PfxIdle /\ RfrIdle /\ MdnIdle
SpecLifespan == StartLifespan /\ [][LifespanNext]_vars /\ LifespanFairness

\* The event loop resumes a broadcast whose send has returned or raised.
ManagerFairness ==
    \A c \in CastIds : WF_vars(CastSend(c)) /\ WF_vars(CastDone(c))

StartManager ==
    ManagerInit /\ JwtInit /\ AuthIdle /\ ModulesInit /\ KeysIdle /\ GuildIdle /\ McIdle /\ RetIdle /\ SetIdle /\ CmdIdle /\ BltIdle /\ LifeIdle /\ MfaIdle /\ UpdIdle /\ PfxIdle /\ RfrIdle /\ MdnIdle
SpecManager == StartManager /\ [][ManagerNext]_vars /\ ManagerFairness

\* The event loop resumes a check that was handed the lock or whose sleep is
\* over, and client.get() answers or raises within its timeout.
GuildFairness ==
    /\ WF_vars(LockAcquired)
    /\ WF_vars(UpstreamResponds \/ UpstreamFails)
    /\ WF_vars(RetryAfterSleep)

\* The checks of one kind, with Discord failing in every way it can.
RetryNext ==
    \/ verify_guild_access
    \/ LockAcquired \/ UpstreamResponds \/ UpstreamFails \/ RetryAfterSleep

SpecRetry == StartGuild /\ [][RetryNext]_vars /\ GuildFairness

StartMfa ==
    MfaInit /\ JwtInit /\ WsInit /\ ModulesInit /\ KeysIdle /\ GuildIdle /\ McIdle /\ RetIdle /\ SetIdle /\ CmdIdle /\ BltIdle /\ LifeIdle /\ MgrIdle /\ UpdIdle /\ PfxIdle /\ RfrIdle /\ MdnIdle
SpecMfa == StartMfa /\ [][MfaNext]_vars

StartUpdate ==
    UpdateInit /\ JwtInit /\ WsInit /\ ModulesInit /\ KeysIdle /\ GuildIdle /\ McIdle /\ RetIdle /\ CmdIdle /\ BltIdle /\ LifeIdle /\ MgrIdle /\ MfaIdle /\ PfxIdle /\ RfrIdle /\ MdnIdle
SpecUpdate == StartUpdate /\ [][UpdateNext]_vars

StartPrefix ==
    PrefixInit /\ JwtInit /\ AuthIdle /\ WsInit /\ ModulesInit /\ KeysIdle /\ GuildIdle /\ McIdle /\ RetIdle /\ SetIdle /\ CmdIdle /\ BltIdle /\ LifeIdle /\ MgrIdle /\ MfaIdle /\ UpdIdle /\ RfrIdle /\ MdnIdle
SpecPrefix == StartPrefix /\ [][PrefixNext]_vars

StartRefresh ==
    RefreshInit /\ JwtInit /\ AuthIdle /\ WsInit /\ ModulesInit /\ KeysIdle /\ GuildIdle /\ McIdle /\ RetIdle /\ SetIdle /\ CmdIdle /\ BltIdle /\ LifeIdle /\ MgrIdle /\ MfaIdle /\ UpdIdle /\ PfxIdle /\ MdnIdle
SpecRefresh == StartRefresh /\ [][RefreshNext]_vars

StartModeration ==
    ModerationInit /\ JwtInit /\ AuthIdle /\ WsInit /\ ModulesInit /\ KeysIdle /\ GuildIdle /\ McIdle /\ RetIdle /\ SetIdle /\ CmdIdle /\ BltIdle /\ LifeIdle /\ MgrIdle /\ MfaIdle /\ UpdIdle /\ PfxIdle /\ RfrIdle
SpecModeration == StartModeration /\ [][ModerationNext]_vars

StartRetention ==
    RetentionInit /\ JwtInit /\ WsInit /\ ModulesInit /\ KeysIdle /\ GuildIdle /\ McIdle /\ SetIdle /\ CmdIdle /\ BltIdle /\ LifeIdle /\ MgrIdle /\ MfaIdle /\ UpdIdle /\ PfxIdle /\ RfrIdle /\ MdnIdle
SpecRetention == StartRetention /\ [][RetentionNext]_vars

----------------------------------------------------------------------------
(* C1: on /ws/logs and /ws/status, a connection attempt that carries neither
   a well-formed, correctly signed, unexpired token of type "access" nor an
   api_key equal to the bot key is closed with code 4001, receives no frame
   and is in no channel's list (nor in a broadcast's copy of one); an
   authenticated connection is not closed by the endpoint, is in its
   channel's list once connect() has returned (for as long as its peer is
   there), receives "connected" as its first frame, and receives
   "subscribed" after it, with nothing but broadcast frames in between. *)
C1_WsAuthGate ==
    \A s \in WsIds :
        LET sock == wsSock[s]
            token == sock.query.token
            authed ==
                \/ /\ token # Unset
                   /\ \E t \in token :
                        /\ t.wellformed /\ t.sig = jwt_secret_key
                        /\ t.claims.type = "access" /\ t.claims.exp > utcnow
                \/ sock.query.api_key = {bot_api_key}
            InList(list) == \E i \in 1..Len(list) : list[i] = s
        IN sock.pc # "idle" =>
            IF ~authed
            THEN /\ sock.pc = "done" /\ sock.close_code = 4001
                 /\ sock.frames = <<>>
                 /\ \A c \in DOMAIN wsConnections : ~InList(wsConnections[c])
                 /\ ~InList(wsCast.connections)
            ELSE /\ sock.close_code = 0
                 /\ sock.frames # <<>> => sock.frames[1] = "connected"
                 /\ (sock.pc \in {"welcomed", "receiving", "rebroadcast"}
                        /\ sock.client_open)
                    => /\ sock.endpoint \in DOMAIN wsConnections
                       /\ InList(wsConnections[sock.endpoint])
                       /\ sock.frames # <<>>
                 /\ (sock.pc \in {"receiving", "rebroadcast"} /\ sock.client_open)
                    => \E i \in 2..Len(sock.frames) :
                        /\ sock.frames[i] = "subscribed"
                        /\ \A j \in 2..(i - 1) : sock.frames[j] \in {"log", "status"}

C1_Witness ==
    /\ wsSock[1].endpoint = "logs" /\ wsSock[1].query.token # Unset
    /\ wsSock[1].query.api_key = Unset
    /\ wsSock[1].frames = <<"connected", "log", "subscribed">>
    /\ wsSock[2].endpoint = "status" /\ wsSock[2].query.token # Unset
    /\ wsSock[2].close_code = 4001 /\ wsSock[2].frames = <<>>
    /\ wsConnections = [c \in {"logs"} |-> <<1>>]

----------------------------------------------------------------------------
(* C3: POST /auth/login never issues an access or refresh token for a user
   whose mfa_enabled is true: the response carries no tokens and is no 200,
   and where the login would otherwise have succeeded (correct password,
   account not disabled) it is 428 with the X-MFA-Required header. *)
C3_LoginNeverIssuesTokensUnderMfa ==
    (last.op = "login" /\ last.subject # 0 /\ last.subject_row.mfa_enabled)
    => /\ last.tokens = None
       /\ last.status # 200
       /\ (last.pw_ok /\ last.subject_row.is_active)
            => (last.status = 428 /\ last.mfa_header)

C3_Witness ==
    /\ last.op = "login" /\ last.subject = 2
    /\ last.subject_row.mfa_enabled /\ last.subject_row.is_active
    /\ last.pw_ok
    /\ last.status = 428 /\ last.mfa_header /\ last.tokens = None
    /\ userTable[2].last_login = -1

(* C4: POST /auth/login/mfa issues a token pair only when the password
   verifies and the submitted code verifies as a TOTP code against the
   user's mfa_secret; a wrong password or a code that does not verify
   against that secret is answered 401 without tokens (a disabled account
   is answered 403, which this statement leaves aside). *)
C4_MfaLoginRequiresCode ==
    last.op = "login_mfa"
    => /\ (last.tokens # None => (last.pw_ok /\ last.code_ok))
       /\ ((~last.pw_ok \/ ~last.code_ok)
                /\ (last.subject = 0 \/ last.subject_row.is_active \/ ~last.pw_ok))
            => (last.status = 401 /\ last.tokens = None)

----------------------------------------------------------------------------
(* C5: POST /auth/refresh issues a new token pair only when the presented
   token is a well-formed, correctly signed, unexpired token of type
   "refresh" whose subject is the id of an existing user with is_active
   true; every other request (an access-typed, expired, foreign or
   malformed token, a deactivated or deleted user) is answered 401 without
   tokens. *)
C5_RefreshOnlyForLiveRefreshTokens ==
    last.op = "refresh" =>
        LET t == last.token
            live == /\ t.wellformed /\ t.sig = jwt_secret_key
                    /\ t.claims.type = "refresh" /\ t.claims.exp > utcnow
            uid == IF live THEN PyInt(t.claims.sub) ELSE 0
            active == uid \in UserIds /\ userTable[uid].exists
                        /\ userTable[uid].is_active
        IN IF live /\ active
           THEN /\ last.status = 200
                /\ last.tokens = TokenPair(uid, utcnow)
           ELSE last.status = 401 /\ last.tokens = None

C5_Witness ==
    /\ last.op = "refresh" /\ last.status = 401 /\ last.tokens = None
    /\ last.token = create_refresh_token([kind |-> "int", v |-> 2], NoDelta, utcnow)
    /\ ~userTable[2].exists

(* C6: a route behind require_permission(p) runs its handler only for a
   bearer token that resolves to an existing, active user who is a superuser
   or whose roles grant p; without such a token the answer is 401, an
   inactive user is answered 403 even if superuser, and an active user
   lacking p is answered 403 with a message naming p. *)
C6_GuardAdmitsOnlyPermittedActiveUsers ==
    last.op \in {"get_user", "update_user", "delete_user"} =>
        LET u == last.caller_row
            p == last.permission
        IN /\ last.ran => /\ last.caller \in UserIds /\ u.exists /\ u.is_active
                          /\ (u.is_superuser \/ p \in Permissions(u))
           /\ last.caller = 0 => (~last.ran /\ last.status = 401)
           /\ (last.caller # 0 /\ ~u.is_active)
                => (~last.ran /\ last.status = 403)
           /\ (last.caller # 0 /\ u.is_active /\ ~u.is_superuser
                    /\ p \notin Permissions(u))
                => /\ ~last.ran /\ last.status = 403
                   /\ last.detail = <<"Permission denied: ", p, " required">>

C6_Witness ==
    /\ last.op = "delete_user" /\ last.permission = "user:delete"
    /\ last.caller = 1 /\ last.caller_row.is_superuser
    /\ ~last.caller_row.is_active
    /\ last.status = 403 /\ ~last.ran
    /\ userTable[last.subject].exists

(* C7: a request made by anyone but a superuser changes no user's
   is_superuser flag and leaves every superuser's row as it was (so it
   neither modifies nor deletes a superuser); a PATCH or DELETE by an
   authenticated non-superuser that targets a superuser, or a PATCH that
   sets is_superuser, is answered 403. *)
C7_SuperusersChangedOnlyBySuperusers ==
    [][ ~last'.caller_row.is_superuser =>
            /\ \A i \in UserIds :
                    userTable'[i].is_superuser = userTable[i].is_superuser
            /\ \A i \in UserIds :
                    userTable[i].is_superuser => userTable'[i] = userTable[i]
            /\ (/\ last'.op \in {"update_user", "delete_user"}
                /\ last'.caller # 0
                /\ last'.subject \in UserIds
                /\ userTable[last'.subject].exists
                /\ (userTable[last'.subject].is_superuser \/ last'.grants))
               => last'.status = 403 ]_vars

C7_Witness ==
    /\ last.op = "update_user" /\ last.ran /\ last.status = 403
    /\ last.caller = 2 /\ ~last.caller_row.is_superuser
    /\ "user:write" \in Permissions(last.caller_row)
    /\ last.subject = 1 /\ userTable[1].is_superuser
    /\ ~last.grants

----------------------------------------------------------------------------
(* C2: a token minted as an access token is never accepted by verify_token *)
(* when the expected type is "refresh", and a token minted as a refresh    *)
(* token is never accepted when the expected type is "access", whatever    *)
(* the subject, the lifetime and the time of verification.                 *)
C2_TokenTypeIsolation ==
    (jwtRes.done /\ jwtTok.kind \in {"access", "refresh"}
        /\ jwtRes.expected # jwtTok.kind)
    => jwtRes.payload = None

\* A live access token verified as "refresh" (rejected), whose verification
\* as "access" would have succeeded.
C2_Witness ==
    /\ jwtRes.done
    /\ jwtTok.kind = "access"
    /\ jwtRes.expected = "refresh"
    /\ jwtRes.payload = None
    /\ verify_token(jwtTok.token, "access", jwtRes.at) # None
    /\ jwtTok.subject = [kind |-> "int", v |-> MaxSubject]

----------------------------------------------------------------------------
(* C10: a module with is_core = true stays enabled whatever enable and
   disable requests are made: no request to POST /bot/module/disable that
   names it succeeds, and every such request that the module:disable guard
   admits, a superuser's included, is answered 400. *)
C10_CoreModulesStayEnabled ==
    /\ \A name \in DOMAIN modules :
            modules[name].is_core => modules[name].is_enabled
    /\ (last.op = "disable_module" /\ last.module.exists /\ last.module.is_core)
        => /\ last.status # 200
           /\ last.ran => last.status = 400

C10_Witness ==
    /\ last.op = "disable_module" /\ last.module_name = "admin"
    /\ last.caller # 0 /\ last.caller_row.is_superuser
    /\ last.ran /\ last.status = 400
    /\ modules["admin"].is_enabled
    /\ modules["minecraft"].is_enabled /\ ~modules["moderation"].is_enabled

----------------------------------------------------------------------------
(* C8: get_api_key_or_user returns at most one of a user, an API-key record
   and is_bot_key = true, by this precedence: an X-API-Key header equal to
   the bot key makes the caller the bot, whatever bearer token comes with
   it; else a bearer token that resolves to an active user gives that user;
   else a stored key that is active, not expired and whose hash verifies
   gives that key record; otherwise all three are absent. *)
C8_ResolutionPrecedence ==
    resolution.called =>
        LET result == resolution.result
            now == resolution.now
            who == get_current_active_user(userTable, resolution.credentials, now)
            stored == {k \in KeyIds :
                        /\ resolution.api_key # Unset
                        /\ apiKeys[k].exists /\ apiKeys[k].is_active
                        /\ ~is_expired(apiKeys[k], now)
                        /\ apiKeys[k].key_prefix
                                = key_prefix(Some(resolution.api_key))
                        /\ verify_password(Some(resolution.api_key),
                                           apiKeys[k].key_hash)}
        IN /\ ~(result.user # 0 /\ result.api_key # 0)
           /\ result.is_bot_key => (result.user = 0 /\ result.api_key = 0)
           /\ result =
                IF resolution.api_key = {bot_api_key} THEN Resolution(0, 0, TRUE)
                ELSE IF who.status = 200 THEN Resolution(who.uid, 0, FALSE)
                ELSE IF stored # {}
                THEN Resolution(0, CHOOSE k \in stored : TRUE, FALSE)
                ELSE Resolution(0, 0, FALSE)

----------------------------------------------------------------------------
(* C9, as claimed: of any number of concurrent guild-access checks for one
   user while the cache holds no fresh entry for that user, at most one
   upstream guild-list call is issued and every check is answered from its
   result; a check issues at most one call, and one that waited for another
   check issues none and is answered from the cache, unless the entry it
   found had expired. *)
C9_OneUpstreamCallPerBatch ==
    \A t \in Tasks :
        LET check == checks[t]
        IN /\ check.attempts <= 1
           /\ (check.waited /\ check.attempts >= 1)
                => _user_guilds_cache[check.user] # NoEntry
           /\ (check.waited /\ check.pc = "done" /\ check.source # "cache")
                => _user_guilds_cache[check.user] # NoEntry

(* C9, amended: upstream calls for one user are never issued by two checks
   at once nor while the cache holds a fresh entry for that user.  The check
   that holds the user's lock issues up to three calls (a 429 is retried);
   a 200 is cached with the time of its arrival and answers that check;
   every check that finds an entry younger than 300 seconds, before or
   after waiting for the lock, is answered from that entry without a call
   of its own; a check issues a call only when the entry is missing or at
   least 300 seconds old. *)
C9_UpstreamCallsSerialisedAndCached ==
    [][\A t \in Tasks :
        LET before == checks[t]
            after == checks'[t]
            user == after.user
        IN /\ after.pc \in {"calling", "sleeping"}
                => /\ _user_guilds_locks'[user].holder = t
                   /\ after.attempts \in 1..3
                   /\ ~cache_fresh(_user_guilds_cache'[user], time_time')
           /\ after.attempts > before.attempts
                => ~cache_fresh(_user_guilds_cache[user], time_time)
           /\ (after.source = "cache" /\ before.source # "cache")
                => /\ before.attempts = 0
                   /\ cache_fresh(_user_guilds_cache[user], time_time)
                   /\ _user_guilds_cache'[user] = _user_guilds_cache[user]
                   /\ after.status
                        = CheckStatus(after.kind, _user_guilds_cache[user].guilds)
           /\ (after.source = "upstream" /\ before.source # "upstream")
                => /\ before.attempts \in 1..3
                   /\ _user_guilds_cache'[user].at = time_time
                   /\ after.status
                        = CheckStatus(after.kind, _user_guilds_cache'[user].guilds)
      ]_vars

C9_Witness ==
    /\ \A t \in Tasks : checks[t].user = 1
    /\ checks[1].pc = "done" /\ checks[1].source = "upstream"
    /\ checks[2].pc = "done" /\ checks[2].waited /\ checks[2].source = "cache"
    /\ checks[3].pc = "calling" /\ checks[3].attempts = 2
    /\ time_time - _user_guilds_cache[1].at >= _USER_GUILDS_TTL

----------------------------------------------------------------------------
(* C11: a POST /minecraft/command whose command begins, in any letter case,
   with one of stop, restart, shutdown, op, deop, ban-ip, pardon-ip never
   succeeds and never reaches the RCON transport; where RCON is enabled,
   every such request that the minecraft:command guard admits is answered
   403. *)
C11_BlockedCommandsNeverSent ==
    (/\ last.op = "minecraft_command"
     /\ \E literal \in BLOCKED_COMMANDS :
            /\ Len(last.command) >= Len(literal)
            /\ \A i \in 1..Len(literal) :
                    lower_char(last.command[i]) = literal[i])
    => /\ last.sent = <<>>
       /\ last.status # 200
       /\ (last.ran /\ rcon_enabled) => last.status = 403

C11_Witness ==
    /\ last.op = "minecraft_command"
    /\ last.command = <<"B", "A", "N", "-", "I", "P", " ", "1">>
    /\ last.caller # 0 /\ last.caller_row.is_superuser
    /\ rcon_enabled /\ last.ran /\ last.status = 403 /\ last.sent = <<>>

----------------------------------------------------------------------------
(* C12: when a retention cleanup cycle ends (audit logging not being switched
   off, the database answering), every row that was older than the anonymize
   cutoff and younger than the delete cutoff has ip_address "0.0.0.0",
   user_agent "[ANONYMIZED]" and anonymized true, and no row older than the
   delete cutoff exists any more. *)
C12_CycleAnonymizesAndDeletes ==
    [][(/\ cleanup_task.pc \in {"cycle", "db"}
        /\ cleanup_task'.pc = "sleep"
        /\ audit_log_enabled # {FALSE}
        /\ cleanup_task'.outcome # "db_error")
       => LET inside == cleanup_task.pc = "db"
              dc == IF inside THEN cleanup_task.delete_cutoff
                    ELSE audit_today - retention_days
              ac == IF inside THEN cleanup_task.anonymize_cutoff
                    ELSE audit_today - anonymize_days
          IN \A id \in AuditIds :
                LET row == audit_logs[id] IN
                /\ (row.exists /\ row.created_at < ac /\ row.created_at > dc)
                    => /\ audit_logs'[id].exists
                       /\ audit_logs'[id].ip_address = {"0.0.0.0"}
                       /\ audit_logs'[id].user_agent = {"[ANONYMIZED]"}
                       /\ audit_logs'[id].anonymized
                /\ (row.exists /\ row.created_at < dc)
                    => ~audit_logs'[id].exists]_vars

----------------------------------------------------------------------------
(* C13: under any sequence of audit writes, retention cycles and the admin
   cleanup and anonymize operations, every audit row with anonymized true has
   ip_address "0.0.0.0" and user_agent "[ANONYMIZED]", and a step leaves an
   anonymized row as it is or deletes it: nothing turns anonymized back to
   false or restores an earlier value. *)
C13_AnonymizedStaysAnonymized ==
    /\ [](\A id \in AuditIds :
            audit_logs[id].anonymized =>
                /\ audit_logs[id].ip_address = {"0.0.0.0"}
                /\ audit_logs[id].user_agent = {"[ANONYMIZED]"})
    /\ [][\A id \in AuditIds :
            audit_logs[id].anonymized =>
                \/ audit_logs'[id] = audit_logs[id]
                \/ audit_logs'[id] = DeletedRow]_vars

\* A row that arrived with a client's address and agent has been anonymized.
C13_Witness ==
    /\ audit_log_enabled = {TRUE}
    /\ cleanup_task.outcome = "committed"
    /\ \E id \in AuditIds :
        /\ audit_logs[id].exists /\ audit_logs[id].anonymized
        /\ audit_logs[id].ip_address = {"0.0.0.0"}
    /\ \E id \in AuditIds :
        /\ audit_logs[id].exists /\ ~audit_logs[id].anonymized
        /\ audit_logs[id].ip_address = {"203.0.113.7"}

----------------------------------------------------------------------------
(* C14: a user's own account is deleted only through DELETE /users/me with
   the confirmation exactly DELETE MY ACCOUNT: a DELETE /users/{id} naming
   the caller's own id is answered 400, a DELETE /users/me by an active user
   with any other confirmation is answered 400, and in both cases the
   caller's row is still there. *)
C14_OwnAccountOnlyWithConfirmation ==
    /\ (last.op = "delete_user" /\ last.ran /\ last.subject = last.caller)
        => last.status = 400 /\ userTable[last.caller].exists
    /\ (/\ last.op = "delete_users_me"
        /\ last.caller # 0 /\ last.caller_row.is_active
        /\ last.confirmation # "DELETE MY ACCOUNT")
        => last.status = 400 /\ userTable[last.caller].exists
    /\ (last.caller # 0 /\ last.caller_row.exists
        /\ ~userTable[last.caller].exists)
        => /\ last.op = "delete_users_me"
           /\ last.confirmation = "DELETE MY ACCOUNT"

(* C15: DELETE /users/me by an active user with the confirmation exactly
   DELETE MY ACCOUNT succeeds: the final user.delete audit entry is written,
   and afterwards the user's row is gone and no audit log, API key or role
   assignment refers to the user. *)
C15_SelfDeletionSucceeds ==
    (/\ last.op = "delete_users_me"
     /\ last.caller # 0 /\ last.caller_row.is_active
     /\ last.confirmation = "DELETE MY ACCOUNT")
    => /\ last.status = 200
       /\ last.audit = "user.delete"
       /\ ~userTable[last.caller].exists
       /\ userTable[last.caller].roles = {}
       /\ userTable[last.caller].owns = {}

----------------------------------------------------------------------------
(* C16: once a guild has a BotSettings row, an authorized create for the same
   guild_id is answered 400 and changes nothing; no step changes or removes
   the row, and a guild never has two rows: after a 201 and any further
   create attempts exactly one row exists for the guild, the one the 201
   stored. *)
C16_DuplicateCreateRejected ==
    /\ [](\A g \in GuildIds : Len(settings_rows(bot_settings, g)) <= 1)
    /\ [](\A t \in SettingsTasks :
            settings_calls[t].status = 201 =>
                settings_rows(bot_settings, settings_calls[t].payload.guild_id)
                    = <<settings_calls[t].payload>>)
    /\ [][\A g \in GuildIds :
            settings_rows(bot_settings, g) # <<>> =>
                /\ settings_rows(bot_settings', g) = settings_rows(bot_settings, g)
                /\ \A t \in SettingsTasks :
                    (/\ settings_started' # settings_started
                     /\ settings_calls'[t] # settings_calls[t]
                     /\ settings_calls'[t].payload.guild_id = g
                     /\ settings_calls'[t].ran)
                    => /\ settings_calls'[t].status = 400
                       /\ bot_settings' = bot_settings]_vars

\* A 201 for guild 111 with prefix "!", then a create for the same guild with
\* prefix "?" answered 400, the row still the first one.
C16_Witness ==
    /\ settings_calls[1].status = 201
    /\ settings_calls[1].payload = [guild_id |-> "111", prefix |-> "!"]
    /\ settings_calls[2].status = 400 /\ settings_calls[2].ran
    /\ settings_calls[2].payload = [guild_id |-> "111", prefix |-> "?"]
    /\ bot_settings = <<[guild_id |-> "111", prefix |-> "!"]>>

----------------------------------------------------------------------------
(* C17: after any sequence of custom-command creates, updates (renames
   included) and deletes, every stored command's name is at most 32
   characters of [a-z0-9_-], does not start with "-" or "_", and is unique in
   its guild. *)
C17_NameInvariant ==
    \A id \in CommandIds :
        custom_commands[id].exists => name_invariant(custom_commands, id)

----------------------------------------------------------------------------
(* C18: for every guild and every command of the catalogue, GET
   /{guild_id}/builtin reports what the latest successful PUT for the pair
   set, or true when there has been none; a pair never has two rows; a step
   changes the reported state of at most the pair a PUT is committing; and a
   PUT for a name outside the catalogue is answered 404 and stores nothing. *)
C18_ReportedStateIsLatestPut ==
    /\ [](\A g \in GuildIds, name \in BUILTIN_COMMANDS :
            /\ list_builtin_commands(command_configs, g)[name] =
                (IF latest_put[<<g, name>>] = Unset THEN TRUE
                 ELSE Some(latest_put[<<g, name>>]))
            /\ Cardinality(config_rows(command_configs, g, name)) <= 1)
    /\ [](/\ \A i \in DOMAIN command_configs :
                command_configs[i].command_name \in BUILTIN_COMMANDS
          /\ \A t \in ToggleTasks :
                (toggle_calls[t].pc = "done"
                 /\ toggle_calls[t].command_name \notin BUILTIN_COMMANDS)
                => toggle_calls[t].status = 404)
    /\ [][\A g \in GuildIds, name \in BUILTIN_COMMANDS :
            list_builtin_commands(command_configs', g)[name]
                # list_builtin_commands(command_configs, g)[name]
            => \E t \in ToggleTasks :
                /\ toggle_calls[t].pc = "selected"
                /\ toggle_calls'[t].status = 200
                /\ toggle_calls[t].guild_id = g
                /\ toggle_calls[t].command_name = name]_vars

\* ban was switched off for guild 111 and on for guild 222, a PUT for a name
\* outside the catalogue was answered 404, and mc status still reads enabled.
C18_Witness ==
    /\ Len(command_configs) = 2
    /\ latest_put[<<"111", "ban">>] = {FALSE}
    /\ latest_put[<<"222", "ban">>] = {TRUE}
    /\ ~list_builtin_commands(command_configs, "111")["ban"]
    /\ list_builtin_commands(command_configs, "222")["ban"]
    /\ list_builtin_commands(command_configs, "111")["mc status"]
    /\ \E t \in ToggleTasks :
        toggle_calls[t].command_name = "banish" /\ toggle_calls[t].status = 404

----------------------------------------------------------------------------
(* C19: a retention cycle that fails with an exception other than
   cancellation (a database error during the anonymize/delete step, say)
   does not end the scheduler: the error is logged and the scheduler backs
   off for 3,600 seconds before it runs another cycle. *)
C19_FailedCycleBacksOffAnHour ==
    [][(/\ cleanup_task.pc \in {"cycle", "db"}
        /\ cleanup_task'.pc # cleanup_task.pc
        /\ cleanup_task'.outcome \in {"raised", "db_error"})
       => /\ cleanup_task'.pc = "sleep"
          /\ logged(cleanup_task') # ""
          /\ cleanup_task'.delay = 3600]_vars

(* C20: on shutdown the retention task is cancelled and awaited: the
   connection pool is disposed only once the task has ended, wherever the
   cancellation found it (in a cycle, in the 24-hour sleep, in the one-hour
   sleep, or not yet run); no cleanup cycle starts after the cancellation;
   and the shutdown, once begun, completes. *)
C20_ShutdownWaitsForTheTask ==
    /\ [](lifespan.disposed => cleanup_task.pc \in {"finished", "cancelled"})
    /\ [][lifespan.pc # "serving" =>
            /\ cleanup_task'.pc \in {"cycle", "db"} => cleanup_task'.pc = cleanup_task.pc
            /\ audit_logs' = audit_logs]_vars
    /\ (lifespan.pc = "awaiting") ~> (lifespan.pc = "complete" /\ lifespan.disposed)

\* A shutdown completed, pool disposed, that found the task in the one-hour
\* sleep after a cycle that raised: the task ended as cancelled.
C20_Witness ==
    /\ lifespan.pc = "complete" /\ lifespan.disposed
    /\ cleanup_task.pc = "cancelled" /\ cleanup_task.delay = 3600
    /\ cleanup_task.outcome = "raised"

----------------------------------------------------------------------------
(* C21: a slow or dead peer does not stall a broadcast: a socket of the
   snapshot that is connected and reading is sent the message (or found
   gone) even while the send to another peer of the snapshot is held up. *)
C21_SlowPeerDoesNotStall ==
    \A c \in CastIds, s \in WsIds :
        (casts[c].pc = "sending" /\ s \in Elements(casts[c].connections)
            /\ ~wsSock[s].slow)
        ~> (s \notin Elements(casts[c].connections) \/ wsSock[s].slow)

(* C22: a socket that was accepted and registered and whose handler has
   ended, however its receive loop ended, is in no channel's list. *)
C22_EndedHandlersAreUnregistered ==
    \A s \in WsIds :
        wsSock[s].pc = "done" =>
            \A channel \in DOMAIN wsConnections :
                s \notin Elements(wsConnections[channel])

\* A registered status socket's loop ended on an exception while the other
\* socket is still registered on the same channel.
C22_Witness ==
    /\ wsSock[1].pc = "done" /\ wsSock[1].close_code = 1011
    /\ wsSock[1].frames # <<>>
    /\ wsSock[2].endpoint = wsSock[1].endpoint
    /\ wsSock[1].endpoint \in DOMAIN wsConnections
    /\ wsConnections[wsSock[1].endpoint] = <<2>>

(* C23: no channel key maps to an empty list; and when a broadcast
   returns, none of the sockets it found not connected or failing is in the
   channel's list, while every socket it sent to that was registered when it
   returned still is. *)
C23_BroadcastRemovesExactlyTheFailed ==
    /\ [](\A channel \in DOMAIN wsConnections : wsConnections[channel] # <<>>)
    /\ [][\A c \in CastIds :
            (casts[c].pc = "sending" /\ casts[c].connections = <<>>
                /\ casts'[c].pc = "returned")
            => LET channel == casts[c].channel
                   before == IF channel \in DOMAIN wsConnections
                             THEN Elements(wsConnections[channel]) ELSE {}
                   after == IF channel \in DOMAIN wsConnections'
                            THEN Elements(wsConnections'[channel]) ELSE {}
               IN /\ after \cap Elements(casts[c].disconnected) = {}
                  /\ (sent_to(casts[c]) \cap before) \subseteq after]_vars

\* A broadcast has found the only socket of a channel gone and returned: the
\* channel has no key any more, while the socket's handler has yet to end.
C23_Witness ==
    /\ casts[1].pc = "returned" /\ casts[2].pc = "idle"
    /\ wsSock[1].pc = "receiving" /\ ~wsSock[1].client_open
    /\ wsSock[1].endpoint \notin DOMAIN wsConnections
    /\ wsSock[2].endpoint # wsSock[1].endpoint
    /\ wsSock[2].endpoint \in DOMAIN wsConnections

----------------------------------------------------------------------------
(* C24, as claimed: a 429 from Discord is retried up to 3 times, each retry
   after the wait the response asked for: the check that gives up on the
   rate limit with 503 has made the first call and three retries.  A 401 or
   403 ends the check with 403 at once; a check makes a bounded number of
   calls and ends. *)
C24_ThreeRetries ==
    /\ [][\A t \in Tasks :
            LET before == checks[t]
                after == checks'[t]
            IN /\ after.attempts <= 4
               /\ (after.attempts > before.attempts /\ before.attempts >= 1)
                    => before.pc = "sleeping"
               /\ (before.pc = "sleeping" /\ after.pc = "done")
                    => before.attempts = 4 /\ after.status = 503
               /\ (before.pc = "sleeping" /\ before.attempts < 4)
                    => after \in {before, [before EXCEPT !.pc = "calling",
                                                         !.attempts = @ + 1]}
               /\ (before.pc = "calling" /\ after.pc = "done"
                     /\ after.source = "none")
                    => after.status \in {403, 503}
       ]_vars
    /\ \A t \in Tasks : (checks[t].pc # "idle") ~> (checks[t].pc = "done")

(* C24, amended: on a cache miss a check makes at most 3 calls to Discord:
   the first and, after a 429, up to 2 retries.  Every 429, the third one
   too, is followed by the wait the response asked for; after the third the
   check fails with 503 without another call.  A 401 or 403 ends the check
   with 403 and any status other than 200 and 429 with 503, both at once.
   Every check that begins ends. *)
C24_ThreeCalls ==
    /\ [][\A t \in Tasks :
            LET before == checks[t]
                after == checks'[t]
            IN /\ after.attempts <= 3
               /\ (after.attempts > before.attempts /\ before.attempts >= 1)
                    => before.pc = "sleeping"
               /\ (before.pc = "sleeping" /\ after.pc = "done")
                    => before.attempts = 3 /\ after.status = 503
               /\ (before.pc = "sleeping" /\ before.attempts < 3)
                    => after \in {before, [before EXCEPT !.pc = "calling",
                                                         !.attempts = @ + 1]}
               /\ (before.pc = "calling" /\ after.pc = "done"
                     /\ after.source = "none")
                    => after.status \in {403, 503}
       ]_vars
    /\ \A t \in Tasks : (checks[t].pc # "idle") ~> (checks[t].pc = "done")

\* A check failed with 503; the next one for the same user, which waited for
\* the lock meanwhile, has made its third call and sleeps after its third 429.
C24_Witness ==
    /\ checks[1].pc = "done" /\ checks[1].source = "none"
    /\ checks[1].status = 503
    /\ checks[2].user = checks[1].user /\ checks[2].waited
    /\ checks[2].pc = "sleeping" /\ checks[2].attempts = 3

(* C25: a cache entry is written only by the check that received a 200 from
   Discord, with the time of that response; a check that fails (403 for a
   rejected token, 503 for another status or for a rate limit that outlasts
   the retries, 500 for a transport error) changes no entry and no longer
   holds the user's lock; so whoever is answered from the cache is answered
   from a 200. *)
C25_OnlySuccessIsCached ==
    /\ [](\A t \in Tasks, u \in GuildUsers :
            _user_guilds_locks[u].holder = t
                => checks[t].user = u /\ checks[t].pc \in {"granted", "calling", "sleeping"})
    /\ [][\A t \in Tasks :
            LET before == checks[t]
                after == checks'[t]
                user == after.user
            IN /\ (before.pc # "done" /\ after.pc = "done"
                     /\ after.source \in {"none", "transport"})
                    => /\ _user_guilds_cache' = _user_guilds_cache
                       /\ before.pc \in {"calling", "sleeping"}
                       /\ _user_guilds_locks[user].holder = t
                       /\ _user_guilds_locks'[user].holder # t
               /\ (after.source = "cache" /\ before.source # "cache")
                    => _user_guilds_cache[user].guilds \in GuildLists
       ]_vars
    /\ [][\A u \in GuildUsers :
            _user_guilds_cache'[u] # _user_guilds_cache[u]
                => /\ _user_guilds_cache'[u].at = time_time
                   /\ \E t \in Tasks :
                        /\ checks[t].pc = "calling" /\ checks[t].user = u
                        /\ checks'[t].source = "upstream"
       ]_vars

\* A check failed on a transport error, the next check for the same user
\* found no entry and the lock free, and is calling Discord itself.
C25_Witness ==
    /\ checks[1].pc = "done" /\ checks[1].source = "transport"
    /\ checks[2].user = checks[1].user /\ ~checks[2].waited
    /\ checks[2].pc = "calling"
    /\ _user_guilds_cache[checks[1].user] = NoEntry
    /\ _user_guilds_locks[checks[1].user].holder = 2

----------------------------------------------------------------------------
(* C26: in every state reachable through the MFA endpoints, mfa_enabled
   implies that mfa_secret is set and is the secret a POST /mfa/verify
   checked its code against. *)
C26_EnabledSecretWasConfirmed ==
    userTable[1].mfa_enabled
        => /\ userTable[1].mfa_secret # 0
           /\ userTable[1].mfa_secret = mfa_confirmed

----------------------------------------------------------------------------
(* C27: a PUT /settings/{guild_id} changes no field of the row that its body
   does not carry, and it adds a bot.settings_update audit entry exactly when
   the value stored in some field changed, the entry's diff naming exactly
   the changed fields with the values stored before and after. *)

\* The fields of the guild's row whose stored value a step changes.
StoredChanges(guild_id) ==
    LET before == settings_rows(bot_settings, guild_id)[1]
        after == settings_rows(bot_settings', guild_id)[1]
    IN [field \in SettingsFields |->
            IF before[field] = after[field] THEN Unset
            ELSE {[old |-> before[field], new |-> after[field]]}]

C27_UpdateChangesAndAuditsTheDiff ==
    [][\A t \in UpdateTasks :
        (update_calls[t].pc # "done" /\ update_calls'[t].pc = "done") =>
            LET call == update_calls'[t]
            IN IF settings_rows(bot_settings, call.guild_id) = <<>>
               THEN bot_settings' = bot_settings /\ settings_audit' = settings_audit
               ELSE LET stored == StoredChanges(call.guild_id)
                    IN /\ \A field \in SettingsFields :
                            call.settings_update[field] = Unset => stored[field] = Unset
                       /\ \A i \in DOMAIN bot_settings :
                            bot_settings[i].guild_id # call.guild_id
                                => bot_settings'[i] = bot_settings[i]
                       /\ (settings_audit' # settings_audit) <=> changes_made(stored)
                       /\ settings_audit' # settings_audit =>
                            /\ Len(settings_audit') = Len(settings_audit) + 1
                            /\ settings_audit'[Len(settings_audit')].changes = stored
    ]_vars

----------------------------------------------------------------------------
(* C28: once a setprefix that persisted a new prefix has completed, the
   guild's entry of the prefix cache is absent or holds the new prefix: it
   never holds the prefix the guild had before the change. *)
C28_CacheNeverHoldsTheOldPrefix ==
    (/\ setprefix_call.pc = "done"
     /\ setprefix_call.persisted
     /\ setprefix_call.before # setprefix_call.prefix)
        => _prefix_cache \in {Unset, {setprefix_call.prefix}}

----------------------------------------------------------------------------
(* C29: after a refresh of the guild for which the backend was there to
   answer, the slash commands registered for the guild are the enabled
   commands of the backend's list, with their definitions, and so are the
   keys of the guild's cache entry. *)
C29_RegisteredAreTheEnabled ==
    (last_refresh.done /\ last_refresh.available) =>
        /\ _registered_commands = new_cache_of(last_refresh.commands)
        /\ DOMAIN _commands_cache = DOMAIN _registered_commands

----------------------------------------------------------------------------
(* C30: ban, kick, mute, unmute and warn never apply their action to a
   member who is the invoker, is the guild's owner, or whose top role is
   equal to or above the invoker's or the bot's own. *)
C30_ProtectedMembersAreNotActedOn ==
    mod_last.applied =>
        /\ mod_last.member # mod_last.user
        /\ mod_last.member # guild_owner
        /\ top_role[mod_last.member] < top_role[mod_last.user]
        /\ top_role[mod_last.member] < top_role[me]

====
